---- MODULE Spec2Model ----
(***************************************************************************)
(* Model of the integra behavioural rules engine.                          *)
(*                                                                         *)
(*  Spec / LiveSpec : the penance flow (penance.py) with the Telegram HIL   *)
(*                    confirmation (channels/telegram.py) and the          *)
(*                    questionnaire (questionnaire.py).                    *)
(*  IntakeSpec      : the log_drug_intake tool handler (collectors.py)     *)
(*                    with the controlled-use evaluator.                   *)
(*  QuotaSpec       : the quota decay engine (quota.py) over the intake    *)
(*                    lake.                                                *)
(*  ControlledUseSpec : evaluate_controlled_use (controlled_use.py) over   *)
(*                    histories written by log_drug_intake.                *)
(*  StreakSpec      : the streak engine (streaks.py) over habit records.   *)
(*  AdvisorSpec     : compute_advisor_state (advisor.py) over both.        *)
(*                                                                         *)
(* Numbers: unit amounts, units_over and credits are kept in fixed point   *)
(* (hundredths, tenths) so that 1.0 / 1.01 / 3.0 / 3.01 are distinct.      *)
(***************************************************************************)
EXTENDS Integers, Sequences, FiniteSets, TLC

VARIABLES
    \* ---- trigger_penance: one coroutine, its locals and position
    pc,               \* position of the trigger_penance coroutine
    substance,        \* argument
    units_over,       \* argument, in hundredths of a unit
    relapse_count,    \* argument relapse_count_this_week
    severity,         \* local: compute_severity(...)
    confirmation,     \* local: verdict string returned by ask_confirmation
    answers,          \* run_questionnaire's answers dict, in insertion order
    result,           \* the record trigger_penance returned
    \* ---- TelegramProvider.ask_confirmation
    future,           \* the pending confirmation future of _pending
    \* ---- the data lake, category "diary"
    diary,
    \* ---- observation of the calls made by the running invocation
    runs,             \* invocations started so far (stands for ts = now)
    confirmRequests,  \* router.ask_confirmation calls of this invocation
    qStarted,         \* run_questionnaire was called in this invocation
    asked,            \* questions sent to the user in this invocation
    timedOut,         \* this invocation's confirmation ended by timeout
    \* ---- the data lake, category "intake", and the intake handler
    intake,           \* stored intake records, in filename order
    lastIntake,       \* what the last log_drug_intake call returned
    \* ---- get_quota_state
    quota,            \* the QuotaState last returned, or NoState
    \* ---- evaluate_controlled_use
    evaluation,       \* arguments and outcome of the last call
    \* ---- the data lake, category "diary", records carrying a habit
    habits,           \* stored habit records, in filename order
    \* ---- get_streak_state
    streak,           \* the StreakState last returned, with its arguments
    \* ---- compute_advisor_state
    advisor,          \* the AdvisorState last returned, with the day of the call
    \* ---- the data lake as files, and the landing zone data/raw
    lake,             \* the lake's files: path and decrypted content
    raw,              \* the files waiting in the landing zone
    utcnow,           \* datetime.now(UTC), in whole seconds
    written,          \* every record stored so far, with the path it was given
    \* ---- the scheduler and the admin commands
    clock,            \* local time, in half minutes since 00:00 of day 0
    schedules,        \* Scheduler.schedules
    loop,             \* position of the Scheduler._loop coroutine
    fired_today,      \* _loop's local set of the entries fired today
    active_questionnaire,  \* Scheduler._active_questionnaire: a task or NoTask
    flows,            \* the questionnaire flows waiting for answers
    tasks,            \* questionnaire coroutines started so far
    commands,         \* admin commands received so far
    callback,         \* a command callback waiting inside interrupt_current
    fired,            \* how often _loop triggered each entry on each day
    cleared,          \* the days on which _loop reset the fired set
    \* ---- dispatch_tool
    calls,            \* the dispatch_tool invocations so far
    \* ---- ChannelRouter
    providers,        \* the keys of _providers, in insertion order
    sensitivity_map,  \* _sensitivity_map: level -> provider name
    registrations,    \* the register calls so far
    \* ---- check_milestones
    utc_today,        \* datetime.now(tz=UTC).date(), as a day number
    celebrations,     \* what the last check_milestones call returned
    announced         \* every celebration returned so far

penanceVars == <<pc, substance, units_over, relapse_count, severity, confirmation,
                 answers, result, future, diary, runs, confirmRequests, qStarted,
                 asked, timedOut>>
intakeVars == <<intake, lastIntake>>
quotaVars == <<quota>>
engineVars == <<evaluation, habits, streak, advisor>>
lakeVars == <<lake, raw, utcnow, written>>
schedulerVars == <<clock, schedules, loop, fired_today, active_questionnaire, flows,
                   tasks, commands, callback, fired, cleared>>
registryVars == <<calls>>
routerVars == <<providers, sensitivity_map, registrations>>
milestoneVars == <<utc_today, celebrations, announced>>
platformVars == <<lakeVars, schedulerVars, registryVars, routerVars, milestoneVars>>
vars == <<penanceVars, intakeVars, quotaVars, engineVars, platformVars>>

----------------------------------------------------------------------------
(* Bounds of the model *)

MaxRuns == 2
MaxIntake == 2

----------------------------------------------------------------------------
(* Strings the code inspects, as sequences of characters *)

Upper(c) ==
    CASE c = "a" -> "A" [] c = "d" -> "D" [] c = "e" -> "E" [] c = "f" -> "F"
      [] c = "i" -> "I" [] c = "m" -> "M" [] c = "n" -> "N" [] c = "o" -> "O"
      [] c = "r" -> "R" [] c = "s" -> "S" [] c = "t" -> "T" [] c = "u" -> "U"
      [] OTHER -> c

StrUpper(s) == [i \in 1..Len(s) |-> Upper(s[i])]

\* Python's `needle in hay` on strings
Contains(needle, hay) ==
    \E i \in 1..(Len(hay) - Len(needle) + 1) :
        SubSeq(hay, i, i + Len(needle) - 1) = needle

APPROVED == <<"A", "P", "P", "R", "O", "V", "E", "D">>
DENIED == <<"D", "E", "N", "I", "E", "D">>
TIMED_OUT ==
    <<"D", "E", "N", "I", "E", "D", " ", "(", "t", "i", "m", "e", "d", " ", "o", "u",
      "t", " ", "a", "f", "t", "e", "r", " ", "5", " ", "m", "i", "n", "u", "t", "e",
      "s", ")">>

NoVerdict == <<>>

----------------------------------------------------------------------------
(* penance.py *)

MINOR == "minor"
STANDARD == "standard"
ESCALATED == "escalated"
PenanceSeverity == {MINOR, STANDARD, ESCALATED}

PenanceSubstances == {"x", "3-cmc"}
\* units_over in hundredths: 0.5, 1.0, 1.01, 3.0, 3.01, 5.0
UnitsOverValues == {50, 100, 101, 300, 301, 500}
RelapseValues == 0..4

compute_severity_off_by_one(uo, rc) ==
    IF rc >= 3 \/ uo >= 300 THEN ESCALATED
    ELSE IF uo <= 100 THEN MINOR
    ELSE STANDARD

compute_severity(uo, rc) ==
    IF rc >= 3 \/ uo > 300 THEN ESCALATED
    ELSE IF uo <= 100 THEN MINOR
    ELSE STANDARD

\* field names of PENANCE_QUESTIONNAIRES[severity].questions, in order
BaseFields == <<"what", "trigger", "takeaway">>
StandardFields == BaseFields \o <<"mood", "alternative_action">>
EscalatedFields == StandardFields \o <<"halt_review", "commitment", "coping_plan">>

PENANCE_QUESTIONNAIRES(sev) ==
    CASE sev = MINOR -> BaseFields
      [] sev = STANDARD -> StandardFields
      [] sev = ESCALATED -> EscalatedFields

\* credits in tenths: 0.5, 0.5, 0.3
PENANCE_CREDITS(sev) ==
    CASE sev = MINOR -> 5
      [] sev = STANDARD -> 5
      [] sev = ESCALATED -> 3

\* line 203: the HIL gate is entered for ESCALATED only
NeedsConfirmationAnyButMinor(sev) == sev # MINOR

NeedsConfirmation(sev) == sev = ESCALATED

\* line 209: "APPROVED" not in confirmation.upper()
IsDeniedNever(conf) == FALSE

IsDenied(conf) == ~Contains(APPROVED, StrUpper(conf))

\* lines 211-217: the minimal denial record's answers and credit
DeniedAnswers == <<[q |-> "denied", a |-> "HIL confirmation denied"]>>

DeniedCreditTier(sev) == PENANCE_CREDITS(sev)

DeniedCredit(sev) == 0

\* _make_penance_diary_record: qa_pairs, questions_asked = len(qa_pairs)
MakePenanceDiaryRecord(sub, sev, ans, credit, ts) ==
    [diary_type |-> "violation", severity |-> sev, substance |-> sub,
     questions_asked |-> Len(ans), answers |-> ans, penance_credit |-> credit,
     timestamp |-> ts]

NoRecord == [diary_type |-> "none"]

----------------------------------------------------------------------------
(* channels/telegram.py: TelegramProvider.ask_confirmation *)

\* line 142: what a timeout returns
TimeoutVerdictApproved == APPROVED

TimeoutVerdictPlainDenied == DENIED

TimeoutVerdict == TIMED_OUT

\* line 146: status = APPROVED if approved else DENIED
CallbackVerdict(data) == IF data = "approve" THEN APPROVED ELSE DENIED

----------------------------------------------------------------------------
(* Initial state: nothing stored, no coroutine running *)

\* nothing returned yet
NoState == [status |-> "no call"]
NoEvaluation == [outcome |-> [raised |-> "no call"]]
NoStreak == [state |-> [habit |-> "no call"]]
NoAdvice == [state |-> "no call"]
NoIntake == [status |-> "no call"]

\* the state after construction, the habit records of the lake apart
LakeInit ==
    /\ lake = {}
    /\ raw = {}
    /\ utcnow = 0
    /\ written = <<>>

\* no Scheduler has been built (settings.schedule_enabled is false)
NoScheduler ==
    /\ clock = 0
    /\ schedules = <<>>
    /\ loop = [pc |-> "none"]
    /\ fired_today = {}
    /\ active_questionnaire = 0
    /\ flows = {}
    /\ tasks = 0
    /\ commands = 0
    /\ callback = [kind |-> "none"]
    /\ fired = <<>>
    /\ cleared = {}

PlatformInit ==
    /\ LakeInit
    /\ NoScheduler
    /\ calls = <<>>
    /\ providers = <<>>
    /\ sensitivity_map = <<>>
    /\ registrations = <<>>
    /\ utc_today = 0
    /\ celebrations = [today |-> -1, records |-> <<>>, messages |-> {}]
    /\ announced = {}

PenanceEnginesInit ==
    /\ pc = "idle"
    /\ substance = ""
    /\ units_over = 0
    /\ relapse_count = 0
    /\ severity = "none"
    /\ confirmation = NoVerdict
    /\ answers = <<>>
    /\ result = NoRecord
    /\ future = "none"
    /\ diary = <<>>
    /\ runs = 0
    /\ confirmRequests = 0
    /\ qStarted = FALSE
    /\ asked = 0
    /\ timedOut = FALSE
    /\ intake = <<>>
    /\ lastIntake = NoIntake
    /\ quota = NoState
    /\ evaluation = NoEvaluation
    /\ streak = NoStreak
    /\ advisor = NoAdvice

InitButHabits ==
    /\ PlatformInit
    /\ PenanceEnginesInit

Init ==
    /\ InitButHabits
    /\ habits = <<>>

----------------------------------------------------------------------------
(* trigger_penance, penance.py lines 186-239, one action per await *)

\* lines 199-208 and 221-222: up to the first await of the invocation
Trigger(sub, uo, rc) ==
    /\ pc = "idle"
    /\ runs < MaxRuns
    /\ runs' = runs + 1
    /\ substance' = sub
    /\ units_over' = uo
    /\ relapse_count' = rc
    /\ severity' = compute_severity(uo, rc)
    /\ IF NeedsConfirmation(severity')
         THEN /\ confirmRequests' = 1
              /\ qStarted' = FALSE
              /\ pc' = "confirm_send"
         ELSE /\ confirmRequests' = 0
              /\ qStarted' = TRUE
              /\ pc' = "q_title"
    /\ confirmation' = NoVerdict
    /\ answers' = <<>>
    /\ result' = NoRecord
    /\ asked' = 0
    /\ timedOut' = FALSE
    /\ UNCHANGED <<future, diary, intakeVars, quotaVars,
                   engineVars, platformVars>>

\* lines 209-222: trigger_penance resumes with the verdict v
Resume(v) ==
    /\ confirmation' = v
    /\ IF IsDenied(v)
         THEN /\ result' = MakePenanceDiaryRecord(substance, severity, DeniedAnswers,
                                                   DeniedCredit(severity), runs)
              /\ diary' = Append(diary, result')
              /\ pc' = "done"
              /\ UNCHANGED qStarted
         ELSE /\ qStarted' = TRUE
              /\ pc' = "q_title"
              /\ UNCHANGED <<result, diary>>

\* telegram.py lines 123-131: the prompt is sent, the future registered
ConfirmSend ==
    /\ pc = "confirm_send"
    /\ \E sent \in BOOLEAN :
         IF sent
           THEN /\ future' = "pending"
                /\ pc' = "confirm_wait"
           ELSE /\ pc' = "raised"
                /\ UNCHANGED future
    /\ UNCHANGED <<substance, units_over, relapse_count, severity, confirmation,
                   answers, result, diary, runs, confirmRequests, qStarted, asked,
                   timedOut, intakeVars, quotaVars,
                   engineVars, platformVars>>

\* telegram.py lines 180-207: the admin presses Approve or Deny
HandleCallback(data) ==
    /\ IF future = "pending"
         THEN future' = data
         ELSE UNCHANGED future
    /\ UNCHANGED <<pc, substance, units_over, relapse_count, severity, confirmation,
                   answers, result, diary, runs, confirmRequests, qStarted, asked,
                   timedOut, intakeVars, quotaVars,
                   engineVars, platformVars>>

\* telegram.py lines 134, 143-153: wait_for returns the future's result
ConfirmReturn ==
    /\ pc = "confirm_wait"
    /\ future \in {"approve", "deny"}
    /\ future' = "none"
    /\ \E edited \in BOOLEAN :
         IF edited
           THEN Resume(CallbackVerdict(future))
           ELSE /\ pc' = "raised"
                /\ UNCHANGED <<confirmation, result, diary, qStarted>>
    /\ UNCHANGED <<substance, units_over, relapse_count, severity, answers, runs,
                   confirmRequests, asked, timedOut, intakeVars, quotaVars,
                   engineVars, platformVars>>

\* telegram.py lines 135-144: wait_for times out after 300 s
ConfirmTimeout ==
    /\ pc = "confirm_wait"
    /\ future = "pending"
    /\ future' = "none"
    /\ timedOut' = TRUE
    /\ \E edited \in BOOLEAN :
         IF edited
           THEN Resume(TimeoutVerdict)
           ELSE /\ pc' = "raised"
                /\ UNCHANGED <<confirmation, result, diary, qStarted>>
    /\ UNCHANGED <<substance, units_over, relapse_count, severity, answers, runs,
                   confirmRequests, asked, intakeVars, quotaVars,
                   engineVars, platformVars>>

\* questionnaire.py line 75: the title message
QTitle ==
    /\ pc = "q_title"
    /\ \E sent \in BOOLEAN :
         pc' = IF sent THEN "q_ask" ELSE "raised"
    /\ UNCHANGED <<substance, units_over, relapse_count, severity, confirmation,
                   answers, result, future, diary, runs, confirmRequests, qStarted,
                   asked, timedOut, intakeVars, quotaVars,
                   engineVars, platformVars>>

\* questionnaire.py lines 77-78, 102-106 / 130-134: the next question is sent
QAsk ==
    /\ pc = "q_ask"
    /\ \E sent \in BOOLEAN :
         IF sent
           THEN /\ asked' = asked + 1
                /\ pc' = "q_wait"
           ELSE /\ pc' = "raised"
                /\ UNCHANGED asked
    /\ UNCHANGED <<substance, units_over, relapse_count, severity, confirmation,
                   answers, result, future, diary, runs, confirmRequests, qStarted,
                   timedOut, intakeVars, quotaVars,
                   engineVars, platformVars>>

\* questionnaire.py lines 108-123 / 136-148 and 79: the user's reply, or the
\* question's default after 300 s (announced by a message that may fail).
\* The answer text is opaque to the flow and kept as one token.
QResolve ==
    /\ pc = "q_wait"
    /\ \E how \in {"reply", "timeout", "timeout_notice_failed"} :
         IF how = "timeout_notice_failed"
           THEN /\ pc' = "raised"
                /\ UNCHANGED answers
           ELSE /\ answers' = Append(answers,
                       [q |-> PENANCE_QUESTIONNAIRES(severity)[Len(answers) + 1],
                        a |-> "text"])
                /\ pc' = IF Len(answers') = Len(PENANCE_QUESTIONNAIRES(severity))
                           THEN "q_final" ELSE "q_ask"
    /\ UNCHANGED <<substance, units_over, relapse_count, severity, confirmation,
                   result, future, diary, runs, confirmRequests, qStarted, asked,
                   timedOut, intakeVars, quotaVars,
                   engineVars, platformVars>>

\* questionnaire.py lines 81-82 and penance.py lines 224-239
QFinal ==
    /\ pc = "q_final"
    /\ \E sent \in BOOLEAN :
         IF sent
           THEN /\ result' = MakePenanceDiaryRecord(substance, severity, answers,
                                                     PENANCE_CREDITS(severity), runs)
                /\ diary' = Append(diary, result')
                /\ pc' = "done"
           ELSE /\ pc' = "raised"
                /\ UNCHANGED <<result, diary>>
    /\ UNCHANGED <<substance, units_over, relapse_count, severity, confirmation,
                   answers, future, runs, confirmRequests, qStarted, asked, timedOut,
                   intakeVars, quotaVars,
                   engineVars, platformVars>>

\* the coroutine has returned or raised; its frame is gone
Finish ==
    /\ pc \in {"done", "raised"}
    /\ pc' = "idle"
    /\ substance' = ""
    /\ units_over' = 0
    /\ relapse_count' = 0
    /\ severity' = "none"
    /\ confirmation' = NoVerdict
    /\ answers' = <<>>
    /\ result' = NoRecord
    /\ confirmRequests' = 0
    /\ qStarted' = FALSE
    /\ asked' = 0
    /\ timedOut' = FALSE
    /\ UNCHANGED <<future, diary, runs, intakeVars, quotaVars,
                   engineVars, platformVars>>

Next ==
    \/ \E sub \in PenanceSubstances, uo \in UnitsOverValues, rc \in RelapseValues :
         Trigger(sub, uo, rc)
    \/ ConfirmSend
    \/ \E data \in {"approve", "deny"} : HandleCallback(data)
    \/ ConfirmReturn
    \/ ConfirmTimeout
    \/ QTitle
    \/ QAsk
    \/ QResolve
    \/ QFinal
    \/ Finish

Spec == Init /\ [][Next]_vars

\* asyncio.wait_for guarantees the timeout; the event loop resumes a coroutine
\* whose future is done; an HTTP send ends by a reply or by its own error
LiveSpec ==
    /\ Spec
    /\ WF_vars(ConfirmSend)
    /\ WF_vars(ConfirmReturn)
    /\ WF_vars(ConfirmTimeout)

----------------------------------------------------------------------------
(* Claims about the penance flow *)

Finished == pc \in {"done", "raised"}
RecordsOfRun(n) == {i \in DOMAIN diary : diary[i].timestamp = n}
DenialRecord == MakePenanceDiaryRecord(substance, severity, DeniedAnswers, 0, runs)

\* C1: every invocation of trigger_penance has stored exactly one violation
\* diary record by the time it finishes, whatever the severity, the verdict
\* and the outcome of the questionnaire step.
C1_OneRecordPerInvocation ==
    Finished => Cardinality(RecordsOfRun(runs)) = 1

\* C2: a confirmation is requested exactly when the severity is ESCALATED; for
\* ESCALATED the questionnaire is not started and no question is asked before
\* the request has returned APPROVED; for MINOR and STANDARD no confirmation
\* is requested and the questionnaire is started unconditionally.
C2_ConfirmationGate ==
    pc # "idle" =>
        /\ confirmRequests \in {0, 1}
        /\ (confirmRequests = 1) <=> (severity = ESCALATED)
        /\ (severity = ESCALATED /\ (qStarted \/ asked > 0 \/ Len(answers) > 0))
               => confirmation = APPROVED
        /\ severity \in {MINOR, STANDARD} => (qStarted /\ confirmation = NoVerdict)

C2_Witness ==
    /\ severity = ESCALATED
    /\ confirmation = APPROVED
    /\ asked > 0

\* C3: when the ESCALATED confirmation is denied, no question is asked, the
\* minimal denial record with penance_credit 0.0 (not the tier's 0.3) is
\* stored and is the record returned, at once.
C3_DenialRecord ==
    (severity = ESCALATED /\ confirmation \in {DENIED, TIMED_OUT}) =>
        /\ pc = "done"
        /\ asked = 0
        /\ ~qStarted
        /\ result.penance_credit = 0
        /\ result.penance_credit # PENANCE_CREDITS(ESCALATED)
        /\ result.answers = DeniedAnswers
        /\ result.severity = ESCALATED
        /\ result.substance = substance
        /\ Len(diary) > 0
        /\ diary[Len(diary)] = result
        /\ RecordsOfRun(runs) = {Len(diary)}

C3_Witness ==
    /\ pc = "done"
    /\ confirmation = DENIED
    /\ result.penance_credit = 0

Confirming == pc \in {"confirm_send", "confirm_wait"}

C5_TimeoutStoredDistinctly ==
    (pc = "done" /\ timedOut) => result # DenialRecord

\* C5 as amended: the verdict string returned by ask_confirmation tells a
\* timeout (TIMED_OUT) from an explicit denial (DENIED), but trigger_penance
\* stores the same minimal denial record for both.
C5_TimeoutAndDenialStoredAlike ==
    (pc = "done" /\ severity = ESCALATED /\ confirmation # APPROVED) =>
        /\ confirmation = (IF timedOut THEN TIMED_OUT ELSE DENIED)
        /\ TIMED_OUT # DENIED
        /\ result = DenialRecord
        /\ diary[Len(diary)] = DenialRecord

C5_Witness ==
    /\ pc = "done"
    /\ timedOut
    /\ diary[Len(diary)].answers = DeniedAnswers

----------------------------------------------------------------------------
(* Records of the lake's "intake" category.                                *)
(* A timestamp is the ISO-8601 string as written: a calendar day (day      *)
(* number, day 0 a Monday), an hour and a UTC offset in hours; or text     *)
(* that datetime.fromisoformat rejects.                                    *)

BadTimestamp == [text |-> "not-a-timestamp"]
Ts(d, h, o) == [date |-> d, hour |-> h, off |-> o]

\* str.lower() on the substance names used
Lower(s) ==
    CASE s = "X" -> "x"
      [] s = "BCD" -> "bcd"
      [] s = "X0" -> "x0"
      [] OTHER -> s

\* float(amount): the numeric amounts used; anything else raises ValueError
IsNumeric(a) == a \in {"0", "1", "2", "3", "4"}
Float(a) ==
    CASE a = "0" -> 0 [] a = "1" -> 1 [] a = "2" -> 2 [] a = "3" -> 3 [] a = "4" -> 4

SetMin(S) == CHOOSE x \in S : \A y \in S : x <= y

RECURSIVE Pow(_, _)
Pow(b, n) == IF n <= 0 THEN 1 ELSE b * Pow(b, n - 1)

----------------------------------------------------------------------------
(* quota.py *)

\* SUBSTANCE_QUOTAS, decay_factor as the fraction decay_num / decay_den
SUBSTANCE_QUOTAS ==
    [s \in {"3-cmc", "k", "x", "thc"} |->
        CASE s = "3-cmc" -> [quota_week_0 |-> 10, decay_num |-> 17, decay_den |-> 20]
          [] s = "k" -> [quota_week_0 |-> 5, decay_num |-> 17, decay_den |-> 20]
          [] s = "x" -> [quota_week_0 |-> 2, decay_num |-> 4, decay_den |-> 5]
          [] s = "thc" -> [quota_week_0 |-> 14, decay_num |-> 9, decay_den |-> 10]]

\* the table as test_zero_quota_penance_triggered patches it: an entry whose
\* quota_week_0 is 0.0 (kept here under its own key "x0")
PatchedQuotas ==
    [s \in DOMAIN SUBSTANCE_QUOTAS \cup {"x0"} |->
        IF s = "x0" THEN [quota_week_0 |-> 0, decay_num |-> 4, decay_den |-> 5]
        ELSE SUBSTANCE_QUOTAS[s]]

\* _iso_week_start: d - timedelta(days=d.weekday())
iso_week_start(d) == d - (d % 7)

\* _parse_timestamp: None on failure
Parseable(ts) == "date" \in DOMAIN ts

\* lines 66-68: the records of the substance, case-insensitively
SubstanceRecords(substance_lower, all_records) ==
    SelectSeq(all_records, LAMBDA r : Lower(r.substance) = substance_lower)

\* lines 73-76
ValidDates(substance_records) ==
    {substance_records[i].timestamp.date :
        i \in {j \in DOMAIN substance_records :
                 Parseable(substance_records[j].timestamp)}}

WeekNUnclamped(substance_records, current_week_start) ==
    IF ValidDates(substance_records) = {} THEN 0
    ELSE (current_week_start
            - iso_week_start(SetMin(ValidDates(substance_records)))) \div 7

\* lines 71-81
WeekN(substance_records, current_week_start) ==
    IF ValidDates(substance_records) = {} THEN 0
    ELSE LET earliest == SetMin(ValidDates(substance_records))
             delta_days == current_week_start - iso_week_start(earliest)
         IN  IF delta_days \div 7 > 0 THEN delta_days \div 7 ELSE 0

\* line 83: quota_week_0 * decay_factor ** week_n, as an exact fraction
CurrentQuota(params, week_n) ==
    [num |-> params.quota_week_0 * Pow(params.decay_num, week_n),
     den |-> Pow(params.decay_den, week_n)]

CountsThisWeekCumulative(record, current_week_start) ==
    Parseable(record.timestamp)

\* lines 88-93: the record is parseable and of the current ISO week
CountsThisWeek(record, current_week_start) ==
    /\ Parseable(record.timestamp)
    /\ iso_week_start(record.timestamp.date) = current_week_start

\* lines 86-97: the loop over substance_records
RECURSIVE UnitsUsed(_, _)
UnitsUsed(substance_records, current_week_start) ==
    IF substance_records = <<>> THEN 0
    ELSE LET record == Head(substance_records)
             rest == UnitsUsed(Tail(substance_records), current_week_start)
         IN  IF CountsThisWeek(record, current_week_start) /\ IsNumeric(record.amount)
               THEN Float(record.amount) + rest
               ELSE rest

ClassifyOverFirst(current_quota, units_used) ==
    IF units_used * current_quota.den > current_quota.num
      THEN [status |-> "over", coaching_flag |-> TRUE, penance_triggered |-> FALSE]
    ELSE IF current_quota.num <= 0 /\ units_used > 0
      THEN [status |-> "zero_relapse", coaching_flag |-> FALSE,
            penance_triggered |-> TRUE]
    ELSE IF units_used * current_quota.den = current_quota.num
      THEN [status |-> "at", coaching_flag |-> FALSE, penance_triggered |-> FALSE]
    ELSE [status |-> "under", coaching_flag |-> FALSE, penance_triggered |-> FALSE]

\* lines 99-112: status and flags, in the code's branch order
Classify(current_quota, units_used) ==
    IF current_quota.num <= 0 /\ units_used > 0
      THEN [status |-> "zero_relapse", coaching_flag |-> FALSE,
            penance_triggered |-> TRUE]
    ELSE IF units_used * current_quota.den > current_quota.num
      THEN [status |-> "over", coaching_flag |-> TRUE, penance_triggered |-> FALSE]
    ELSE IF units_used * current_quota.den = current_quota.num
      THEN [status |-> "at", coaching_flag |-> FALSE, penance_triggered |-> FALSE]
    ELSE [status |-> "under", coaching_flag |-> FALSE, penance_triggered |-> FALSE]

NoneState == [status |-> "None"]

\* get_quota_state, lines 37-124; reference_date is kept with the result
GetQuotaStateOp(sub, all_records, reference_date) ==
    LET substance_lower == Lower(sub) IN
    IF substance_lower \notin DOMAIN PatchedQuotas THEN NoneState
    ELSE
      LET params == PatchedQuotas[substance_lower]
          current_week_start == iso_week_start(reference_date)
          substance_records == SubstanceRecords(substance_lower, all_records)
          week_n == WeekN(substance_records, current_week_start)
          current_quota == CurrentQuota(params, week_n)
          units_used == UnitsUsed(substance_records, current_week_start)
          c == Classify(current_quota, units_used)
      IN  [substance |-> substance_lower,
           week_n |-> week_n,
           quota_week_0 |-> params.quota_week_0,
           current_quota |-> current_quota,
           units_used |-> units_used,
           status |-> c.status,
           coaching_flag |-> c.coaching_flag,
           penance_triggered |-> c.penance_triggered,
           reference_date |-> reference_date]

----------------------------------------------------------------------------
(* controlled_use.py *)

CONTROLLED_USE_CONFIG ==
    [s \in {"bcd"} |->
        [daily_ceiling |-> 4, work_hours_start |-> 9, work_hours_end |-> 17,
         cooldown_hours |-> 2]]

\* Settings.timezone = "Europe/Warsaw": UTC+1 (standard time)
WarsawOffset == 1

\* a timestamp without a UTC offset (a naive datetime)
Naive(d, h) == [date |-> d, hour |-> h]
Aware(ts) == "off" \in DOMAIN ts
\* astimezone reads a naive datetime in the zone of the host, taken to be the
\* configured one; the naive hours used give the same local date in any zone
Offset(ts) == IF Aware(ts) THEN ts.off ELSE WarsawOffset

\* the instant of a timestamp, in hours
Instant(ts) == ts.date * 24 + ts.hour - Offset(ts)
\* ts.astimezone(tz).hour and .date()
LocalHour(ts) == (Instant(ts) + WarsawOffset) % 24
LocalDate(ts) == (Instant(ts) + WarsawOffset) \div 24

is_work_hours(ts, work_start, work_end) ==
    work_start <= LocalHour(ts) /\ LocalHour(ts) < work_end

InCooldownStrict(rec_ts, ts, cooldown_hours) ==
    Instant(rec_ts) > Instant(ts) - cooldown_hours

\* line 58: rec_ts >= cutoff
InCooldown(rec_ts, ts, cooldown_hours) ==
    Instant(rec_ts) >= Instant(ts) - cooldown_hours

\* _cooldown_violated, lines 46-60: the loop returns at the first record
\* inside the window; comparing a naive with an aware datetime raises
\* TypeError, which the except clause of line 56 does not cover
RECURSIVE cooldown_outcome(_, _, _)
cooldown_outcome(ts, recent_records, cooldown_hours) ==
    IF recent_records = <<>> THEN "False"
    ELSE LET rec_ts == Head(recent_records).timestamp
             rest == cooldown_outcome(ts, Tail(recent_records), cooldown_hours)
         IN  IF ~Parseable(rec_ts) THEN rest
             ELSE IF Aware(rec_ts) # Aware(ts) THEN "TypeError"
             ELSE IF InCooldown(rec_ts, ts, cooldown_hours) THEN "True"
             ELSE rest

cooldown_violated(ts, recent_records, cooldown_hours) ==
    cooldown_outcome(ts, recent_records, cooldown_hours) = "True"

RECURSIVE today_total(_, _)
today_total(ts, recent_records) ==
    IF recent_records = <<>> THEN 0
    ELSE LET record == Head(recent_records)
             rest == today_total(ts, Tail(recent_records))
         IN  IF /\ Parseable(record.timestamp)
                /\ LocalDate(record.timestamp) = LocalDate(ts)
                /\ IsNumeric(record.amount)
               THEN Float(record.amount) + rest
               ELSE rest

NoCfg == [none |-> TRUE]
NoMessage == [none |-> TRUE]

CfgGetDefaultRules(key) == CONTROLLED_USE_CONFIG["bcd"]

\* line 99: CONTROLLED_USE_CONFIG.get(key)
CfgGet(key) ==
    IF key \in DOMAIN CONTROLLED_USE_CONFIG THEN CONTROLLED_USE_CONFIG[key]
    ELSE NoCfg

\* evaluate_controlled_use, lines 82-154: (record, coaching_needed,
\* coaching_message), or the exception that leaves it
evaluate_controlled_use(sub, amount, ts, recent_records) ==
    LET key == Lower(sub)
        cfg == CfgGet(key)
    IN
    IF cfg = NoCfg
      THEN [raised |-> "no",
            record |-> [substance |-> sub, amount |-> amount, timestamp |-> ts,
                        work_hours_violation |-> FALSE,
                        cooldown_violation |-> FALSE,
                        daily_ceiling_exceeded |-> FALSE],
            coaching_needed |-> FALSE,
            coaching_message |-> NoMessage]
    ELSE IF cooldown_outcome(ts, recent_records, cfg.cooldown_hours) = "TypeError"
      THEN [raised |-> "TypeError"]
      ELSE
        LET work_hours_violation ==
                is_work_hours(ts, cfg.work_hours_start, cfg.work_hours_end)
            cooldown_violation ==
                cooldown_violated(ts, recent_records, cfg.cooldown_hours)
            new_amount == IF IsNumeric(amount) THEN Float(amount) ELSE 0
            daily_ceiling_exceeded ==
                today_total(ts, recent_records) + new_amount > cfg.daily_ceiling
            coaching_needed ==
                work_hours_violation \/ cooldown_violation \/ daily_ceiling_exceeded
        IN  [raised |-> "no",
             record |-> [substance |-> sub, amount |-> amount, timestamp |-> ts,
                         work_hours_violation |-> work_hours_violation,
                         cooldown_violation |-> cooldown_violation,
                         daily_ceiling_exceeded |-> daily_ceiling_exceeded],
             coaching_needed |-> coaching_needed,
             coaching_message |->
                 IF coaching_needed
                   THEN [violations |->
                           (IF work_hours_violation THEN {"work hours"} ELSE {})
                             \cup (IF cooldown_violation THEN {"cooldown"} ELSE {})
                             \cup (IF daily_ceiling_exceeded
                                     THEN {"daily ceiling"} ELSE {})]
                   ELSE NoMessage]

----------------------------------------------------------------------------
(* collectors.py: log_drug_intake, and mcp_server.py: query_data *)

ADDICTION_THERAPY == "addiction-therapy"
CONTROLLED_USE == "controlled-use"

\* query_data(category="intake", filters={"substance": substance}):
\* _matches_filters compares with ==
QueryBySubstance(sub) == SelectSeq(intake, LAMBDA r : r.substance = sub)

\* log_drug_intake, lines 83-183, with the _store_record it ends in.
\* The call is made at the time ts it reports.
LogDrugIntake(sub, amount, category, ts) ==
    /\ Len(intake) < MaxIntake
    /\ sub # "" /\ amount # ""
    /\ IF category = ADDICTION_THERAPY
         THEN /\ intake' = Append(intake,
                     [substance |-> sub, amount |-> amount, timestamp |-> ts])
              /\ lastIntake' = [status |-> "logged", substance |-> sub,
                                violations |-> {}]
         ELSE IF category = CONTROLLED_USE /\ ~Parseable(ts)
         THEN \* datetime.fromisoformat raises: nothing is stored
              /\ intake' = intake
              /\ lastIntake' = [status |-> "raised", substance |-> sub,
                                violations |-> {}]
         ELSE IF category = CONTROLLED_USE
         THEN LET e == evaluate_controlled_use(sub, amount, ts, QueryBySubstance(sub))
              IN  IF e.raised # "no"
                    THEN \* the exception leaves the handler before _store_record
                         /\ intake' = intake
                         /\ lastIntake' = [status |-> "raised", substance |-> sub,
                                           violations |-> {}]
                    ELSE /\ intake' = Append(intake, e.record)
                         /\ lastIntake' =
                               [status |-> "logged", substance |-> sub,
                                violations |->
                                   {f \in {"work_hours_violation",
                                           "cooldown_violation",
                                           "daily_ceiling_exceeded"} : e.record[f]}]
         ELSE /\ intake' = Append(intake,
                     [substance |-> sub, amount |-> amount, timestamp |-> ts,
                      category |-> category])
              /\ lastIntake' = [status |-> "logged", substance |-> sub,
                                violations |-> {}]
    \* results computed before this call no longer describe the lake
    /\ quota' = NoState
    /\ evaluation' = NoEvaluation
    /\ advisor' = NoAdvice
    /\ UNCHANGED <<penanceVars, habits, streak, platformVars>>

\* get_quota_state(substance, config, reference_date), as the advisor and the
\* tests call it
GetQuotaState(sub, reference_date) ==
    /\ quota' = GetQuotaStateOp(sub, intake, reference_date)
    /\ UNCHANGED <<intake, lastIntake, penanceVars, engineVars, platformVars>>

\* evaluate_controlled_use called on the stored history
EvaluateControlledUse(sub, amount, ts) ==
    /\ evaluation' =
          [substance |-> sub, amount |-> amount, timestamp |-> ts,
           outcome |-> evaluate_controlled_use(sub, amount, ts, intake)]
    /\ UNCHANGED <<intake, lastIntake, quota, habits, streak, advisor, penanceVars, platformVars>>

----------------------------------------------------------------------------
(* QuotaSpec: addiction-therapy intakes over three ISO weeks, evaluated at  *)
(* any reference date                                                      *)

QuotaLogSubstances == {"X", "x0"}
QuotaAmounts == {"1", "2", "abc"}
\* Tuesday of week 0, Monday of week 1, Sunday of week 2, and a corrupt one
QuotaTimestamps == {Ts(1, 10, 0), Ts(7, 10, 0), Ts(20, 10, 0), BadTimestamp}
QuotaQuerySubstances == {"x", "x0", "caffeine"}
ReferenceDates == {0, 6, 7, 13, 14, 21}

QuotaNext ==
    \/ \E sub \in QuotaLogSubstances, amount \in QuotaAmounts,
          ts \in QuotaTimestamps :
         LogDrugIntake(sub, amount, ADDICTION_THERAPY, ts)
    \/ \E sub \in QuotaQuerySubstances, d \in ReferenceDates :
         GetQuotaState(sub, d)

QuotaSpec == Init /\ [][QuotaNext]_vars

----------------------------------------------------------------------------
(* IntakeSpec: the intake handlers next to the penance flow.  No handler   *)
(* calls trigger_penance (its only callers are tests), so its invocation   *)
(* is a step of the environment; a MINOR run of it is kept here.           *)

IntakeAmounts == {"1", "4"}
\* 08:00, 10:00 on one day and 08:00 on the next, Warsaw local time
IntakeTimestamps ==
    {Ts(1, 8, WarsawOffset), Ts(1, 10, WarsawOffset), Ts(2, 8, WarsawOffset)}
IntakeReferenceDates == {1, 8}

IntakeNext ==
    \/ \E amount \in IntakeAmounts, ts \in IntakeTimestamps :
         LogDrugIntake("bcd", amount, CONTROLLED_USE, ts)
    \/ \E ts \in IntakeTimestamps :
         LogDrugIntake("x", "4", ADDICTION_THERAPY, ts)
    \/ \E d \in IntakeReferenceDates : GetQuotaState("x", d)
    \/ \E sub \in {"x", "bcd"} : Trigger(sub, 50, 0)
    \/ QTitle
    \/ QAsk
    \/ QResolve
    \/ QFinal
    \/ Finish

IntakeSpec == Init /\ [][IntakeNext]_vars

\* the event loop resumes a started trigger_penance; a question ends by a
\* reply or by its 300 s timeout.  Nothing schedules trigger_penance itself.
IntakeLiveSpec ==
    IntakeSpec /\ WF_vars(QTitle \/ QAsk \/ QResolve \/ QFinal \/ Finish)

----------------------------------------------------------------------------
(* Claims about the intake handlers and the quota engine *)

\* the violation signals of an intake of substance s
ControlledUseSignal(s) ==
    /\ lastIntake.status = "logged"
    /\ Lower(lastIntake.substance) = s
    /\ lastIntake.violations # {}
QuotaSignal(s) ==
    /\ quota.status \in {"over", "zero_relapse"}
    /\ quota.substance = s
    /\ quota.penance_triggered \/ quota.coaching_flag
PenanceInvokedFor(s) == pc # "idle" /\ Lower(substance) = s

\* C6: whenever a logged intake leads to a violation signal (a controlled-use
\* record with a violation flag set, or a quota state with penance_triggered
\* or over quota), trigger_penance is subsequently invoked for that substance.
C6_ViolationLeadsToPenance ==
    \A s \in {"bcd", "x"} :
        (ControlledUseSignal(s) \/ QuotaSignal(s)) ~> PenanceInvokedFor(s)

HasState == quota.status \notin {"no call", "None"}

\* C8: the status is zero_relapse iff current_quota <= 0 and units_used > 0,
\* else over iff units_used > current_quota, else at iff they are equal, else
\* under; penance_triggered holds exactly for zero_relapse, coaching_flag
\* exactly for over, and the two flags are never both true.
C8_StatusPriority ==
    HasState =>
      LET q == quota.current_quota
          u == quota.units_used
          zero == q.num <= 0 /\ u > 0
          more == u * q.den > q.num
          same == u * q.den = q.num
      IN  /\ (quota.status = "zero_relapse") <=> zero
          /\ (quota.status = "over") <=> (~zero /\ more)
          /\ (quota.status = "at") <=> (~zero /\ ~more /\ same)
          /\ (quota.status = "under") <=> (~zero /\ ~more /\ ~same)
          /\ quota.penance_triggered <=> (quota.status = "zero_relapse")
          /\ quota.coaching_flag <=> (quota.status = "over")
          /\ ~(quota.penance_triggered /\ quota.coaching_flag)

\* a zero quota with use this week
C8_Witness ==
    /\ HasState
    /\ quota.current_quota.num = 0
    /\ quota.units_used > 0
    /\ quota.status = "zero_relapse"
    /\ quota.penance_triggered

\* the records of the lake that belong to the substance of the quota state
OwnRecords ==
    {i \in DOMAIN intake : Lower(intake[i].substance) = quota.substance}
Dated(i) == "date" \in DOMAIN intake[i].timestamp
\* the number of the week a day lies in, weeks running Monday to Sunday
WeekOf(d) == d \div 7

\* C9: current_quota is quota_week_0 * decay_factor^week_n, week_n being
\* max(0, whole weeks from the Monday of the earliest record's week to the
\* Monday of the reference date's week); a later reference date never gives
\* a larger current_quota.
C9_QuotaDecay ==
    HasState =>
      LET p == PatchedQuotas[quota.substance]
          D == {intake[i].timestamp.date : i \in {j \in OwnRecords : Dated(j)}}
          weeks == IF D = {} THEN 0
                   ELSE LET earliest == CHOOSE x \in D : \A y \in D : x <= y
                        IN  WeekOf(quota.reference_date) - WeekOf(earliest)
          n == IF weeks > 0 THEN weeks ELSE 0
          q == quota.current_quota
      IN  /\ quota.week_n = n
          /\ q.num * Pow(p.decay_den, n)
               = p.quota_week_0 * Pow(p.decay_num, n) * q.den
          /\ \A d \in ReferenceDates :
               d >= quota.reference_date =>
                 LET later == GetQuotaStateOp(quota.substance, intake, d).current_quota
                 IN  later.num * q.den <= q.num * later.den

\* two weeks after the first record of x: 2 * 0.8^2
C9_Witness ==
    /\ HasState
    /\ quota.substance = "x"
    /\ quota.week_n = 2
    /\ quota.current_quota = [num |-> 32, den |-> 25]

RECURSIVE SumAmounts(_)
SumAmounts(I) ==
    IF I = {} THEN 0
    ELSE LET i == CHOOSE x \in I : TRUE
         IN  Float(intake[i].amount) + SumAmounts(I \ {i})

RemoveAt(seq, i) ==
    [k \in 1..(Len(seq) - 1) |-> IF k < i THEN seq[k] ELSE seq[k + 1]]

\* C10: units_used is the sum of the numeric amounts of the substance's
\* records dated in the reference date's ISO week; removing or appending a
\* record dated in another week does not change it.
C10_UnitsUsedThisWeek ==
    HasState =>
      LET week == WeekOf(quota.reference_date)
          thisWeek == {i \in OwnRecords :
                         /\ Dated(i)
                         /\ WeekOf(intake[i].timestamp.date) = week
                         /\ IsNumeric(intake[i].amount)}
          unitsOf(records) ==
              GetQuotaStateOp(quota.substance, records,
                              quota.reference_date).units_used
      IN  /\ quota.units_used = SumAmounts(thisWeek)
          /\ \A i \in DOMAIN intake :
               (Dated(i) /\ WeekOf(intake[i].timestamp.date) # week)
                 => unitsOf(RemoveAt(intake, i)) = quota.units_used
          /\ \A sub \in QuotaLogSubstances, amount \in QuotaAmounts,
                ts \in QuotaTimestamps \ {BadTimestamp} :
               WeekOf(ts.date) # week
                 => unitsOf(Append(intake, [substance |-> sub, amount |-> amount,
                                            timestamp |-> ts]))
                      = quota.units_used

\* a record of this week is counted next to a numeric one of another week
C10_Witness ==
    /\ HasState
    /\ quota.units_used > 0
    /\ \E i \in OwnRecords :
         /\ Dated(i)
         /\ WeekOf(intake[i].timestamp.date) # WeekOf(quota.reference_date)
         /\ IsNumeric(intake[i].amount)

----------------------------------------------------------------------------
(* ControlledUseSpec: evaluate_controlled_use over the histories that      *)
(* log_drug_intake writes.  A timestamp passed with another category is    *)
(* stored as given, with or without an offset.                             *)

SUPPLEMENT == "supplement"
CuLogSubstances == {"bcd", "BCD"}
CuAmounts == {"1", "4"}
\* 23:00 UTC of the day before (00:00 in Warsaw), 08:00 Warsaw, 08:00 the
\* day after
CuLogTimestamps ==
    {Ts(0, 23, 0), Ts(1, 8, WarsawOffset), Ts(2, 8, WarsawOffset)}
RawTimestamps == {Naive(1, 12), BadTimestamp}
CuEvalSubstances == {"bcd", "totally-unknown"}
CuEvalAmounts == {"1", "abc"}
CuEvalTimestamps ==
    {Ts(1, 8, WarsawOffset), Ts(1, 10, WarsawOffset), Ts(1, 18, WarsawOffset)}
CuReferenceDates == {1, 8}

ControlledUseNext ==
    \/ \E sub \in CuLogSubstances, amount \in CuAmounts, ts \in CuLogTimestamps :
         LogDrugIntake(sub, amount, CONTROLLED_USE, ts)
    \/ \E ts \in RawTimestamps : LogDrugIntake("bcd", "1", SUPPLEMENT, ts)
    \/ \E sub \in CuEvalSubstances, amount \in CuEvalAmounts,
          ts \in CuEvalTimestamps :
         EvaluateControlledUse(sub, amount, ts)
    \/ \E d \in CuReferenceDates : GetQuotaState("totally-unknown", d)

ControlledUseSpec == Init /\ [][ControlledUseNext]_vars

----------------------------------------------------------------------------
(* Claims about the controlled-use evaluator *)

Evaluated == evaluation.outcome.raised = "no"
EvaluatedConfigured ==
    Evaluated /\ Lower(evaluation.substance) \in DOMAIN CONTROLLED_USE_CONFIG

\* the wall-clock hour and day in Warsaw of an aware timestamp
WarsawHours(ts) == ts.date * 24 + ts.hour - ts.off + WarsawOffset
\* the records of the history the evaluation can read the time of
Readable(i) ==
    /\ "date" \in DOMAIN intake[i].timestamp
    /\ "off" \in DOMAIN intake[i].timestamp
\* no record of the history carries a time without an offset
AllOffsets ==
    \A i \in DOMAIN intake :
        "date" \in DOMAIN intake[i].timestamp => "off" \in DOMAIN intake[i].timestamp

IsControlledUseRecord(i) == "cooldown_violation" \in DOMAIN intake[i]

\* C12: the substance name is a case-insensitive key: the cooldown and
\* daily-ceiling flags of every stored controlled-use record of a configured
\* substance are computed against all records of that substance stored
\* before it, whatever the letter-casing of the name in each call.
C12_CaseInsensitiveHistory ==
    AllOffsets =>
      \A i \in DOMAIN intake :
        (IsControlledUseRecord(i)
           /\ Lower(intake[i].substance) \in DOMAIN CONTROLLED_USE_CONFIG) =>
          LET cfg == CONTROLLED_USE_CONFIG[Lower(intake[i].substance)]
              now == WarsawHours(intake[i].timestamp)
              before == {j \in 1..(i - 1) :
                           /\ Readable(j)
                           /\ Lower(intake[j].substance) = Lower(intake[i].substance)}
              total == SumAmounts({j \in before :
                                     /\ WarsawHours(intake[j].timestamp) \div 24
                                          = now \div 24
                                     /\ IsNumeric(intake[j].amount)})
                         + (IF IsNumeric(intake[i].amount)
                              THEN Float(intake[i].amount) ELSE 0)
          IN  /\ intake[i].cooldown_violation
                   <=> \E j \in before :
                         WarsawHours(intake[j].timestamp) >= now - cfg.cooldown_hours
              /\ intake[i].daily_ceiling_exceeded <=> (total > cfg.daily_ceiling)

\* C13: for a substance with no configuration evaluate_controlled_use
\* returns, without raising, a record with all three flags false, with
\* coaching_needed false and no message, and get_quota_state returns None,
\* whatever the history contains.
C13_UnknownSubstance ==
    /\ (evaluation.outcome.raised # "no call"
          /\ Lower(evaluation.substance) \notin DOMAIN CONTROLLED_USE_CONFIG) =>
         /\ evaluation.outcome.raised = "no"
         /\ ~evaluation.outcome.record.work_hours_violation
         /\ ~evaluation.outcome.record.cooldown_violation
         /\ ~evaluation.outcome.record.daily_ceiling_exceeded
         /\ ~evaluation.outcome.coaching_needed
         /\ evaluation.outcome.coaching_message = NoMessage
    /\ \A d \in CuReferenceDates :
         GetQuotaStateOp("totally-unknown", intake, d) = NoneState
    /\ quota.status # "no call" => quota = NoneState

\* an unknown substance evaluated in work hours, right after a use of bcd and
\* with a record without offset in the history; the quota state asked too
C13_Witness ==
    /\ evaluation.outcome.raised = "no"
    /\ evaluation.substance = "totally-unknown"
    /\ evaluation.timestamp.hour = 10
    /\ \E i \in DOMAIN intake : ~Readable(i)
    /\ \E i \in DOMAIN intake : IsControlledUseRecord(i)
    /\ quota = NoneState

\* C20: no single historical record can abort an evaluation: with records
\* whose timestamp is missing, empty, unparseable or without a timezone
\* offset in the history, evaluate_controlled_use returns normally, and
\* the records whose timestamp cannot be parsed contribute nothing to its
\* sums and cooldown checks.
C20_NoRecordAborts ==
    evaluation.outcome.raised # "no call" =>
      /\ evaluation.outcome.raised = "no"
      /\ evaluation.outcome
           = evaluate_controlled_use(
                 evaluation.substance, evaluation.amount, evaluation.timestamp,
                 SelectSeq(intake, LAMBDA r : "date" \in DOMAIN r.timestamp))

----------------------------------------------------------------------------
(* streaks.py *)

MAX_GRACE == 3
MILESTONES == {7, 30, 50, 100}
NoMilestone == [none |-> TRUE]

SetMax(S) == CHOOSE x \in S : \A y \in S : x >= y
Min(a, b) == IF a <= b THEN a ELSE b
Max(a, b) == IF a >= b THEN a ELSE b

\* a timestamp that is a plain ISO date
Day(d) == [date |-> d]

\* compute_multiplier: min(1.0 + 0.01 * streak_days, 1.50), in hundredths
compute_multiplier(streak_days) == Min(100 + streak_days, 150)

\* check_milestone
check_milestone(streak_days) ==
    IF streak_days \in MILESTONES THEN [value |-> streak_days] ELSE NoMilestone

\* query_data(category="diary", filters={"habit": habit})
QueryByHabit(habit, all_records) ==
    SelectSeq(all_records, LAMBDA r : r.habit = habit)

\* _extract_dates, lines 35-47: the set of the dates that parse
extract_dates(records) ==
    {records[i].timestamp.date :
        i \in {j \in DOMAIN records : Parseable(records[j].timestamp)}}

FirstReturnedDate(records) ==
    records[CHOOSE i \in DOMAIN records :
              /\ Parseable(records[i].timestamp)
              /\ \A j \in 1..(i - 1) : ~Parseable(records[j].timestamp)
           ].timestamp.date

\* lines 47 and 139: sorted(dates, reverse=True)[0]
LatestRecord(records) == SetMax(extract_dates(records))

\* _count_bare_streak, lines 50-57
RECURSIVE count_bare_streak(_, _)
count_bare_streak(date_set, start) ==
    IF start \in date_set THEN 1 + count_bare_streak(date_set, start - 1) ELSE 0

GraceBudgetUnseeded(bare_seed) == 0

\* line 141
GraceBudget(bare_seed) == Min(bare_seed \div 7, MAX_GRACE)

CanBridgeAnyGap(date_set, cursor, grace_consumed, grace_budget) ==
    grace_consumed < grace_budget

\* line 81
CanBridge(date_set, cursor, grace_consumed, grace_budget) ==
    grace_consumed < grace_budget /\ (cursor - 1) \in date_set

\* the loop of _compute_streak_with_grace, lines 75-85
RECURSIVE Walk(_, _, _, _, _)
Walk(date_set, cursor, streak_days, grace_consumed, grace_budget) ==
    IF cursor \in date_set
      THEN Walk(date_set, cursor - 1, streak_days + 1, grace_consumed, grace_budget)
    ELSE IF CanBridge(date_set, cursor, grace_consumed, grace_budget)
      THEN Walk(date_set, cursor - 1, streak_days, grace_consumed + 1, grace_budget)
    ELSE [streak |-> streak_days, grace_consumed |-> grace_consumed]

\* _compute_streak_with_grace, lines 60-87
compute_streak_with_grace(date_set, start, grace_budget) ==
    Walk(date_set, start, 0, 0, grace_budget)

GraceTotalEarnedCapped(streak_days) == Min(streak_days \div 7, MAX_GRACE)

\* line 146
GraceTotalEarned(streak_days) == streak_days \div 7

\* line 147
GraceAvailable(grace_total_earned, grace_consumed) ==
    Min(Max(grace_total_earned - grace_consumed, 0), MAX_GRACE)

\* get_streak_state, lines 90-159
GetStreakStateOp(habit, all_records, reference_date) ==
    LET records == QueryByHabit(habit, all_records)
        date_set == extract_dates(records)
        completed_today == reference_date \in date_set
    IN
    IF date_set = {}
      THEN [habit |-> habit, streak_days |-> 0,
            multiplier |-> compute_multiplier(0),
            grace_total_earned |-> 0, grace_consumed |-> 0,
            grace_available |-> 0, at_risk |-> FALSE,
            milestone_hit |-> NoMilestone]
      ELSE
        LET latest_record == LatestRecord(records)
            bare_seed == count_bare_streak(date_set, latest_record)
            grace_budget == GraceBudget(bare_seed)
            walk == compute_streak_with_grace(date_set, reference_date, grace_budget)
            grace_total_earned == GraceTotalEarned(walk.streak)
        IN  [habit |-> habit, streak_days |-> walk.streak,
             multiplier |-> compute_multiplier(walk.streak),
             grace_total_earned |-> grace_total_earned,
             grace_consumed |-> walk.grace_consumed,
             grace_available |->
                 GraceAvailable(grace_total_earned, walk.grace_consumed),
             at_risk |-> (walk.streak >= 7 /\ ~completed_today),
             milestone_hit |-> check_milestone(walk.streak)]

\* get_streak_state(habit, config, today)
GetStreakState(habit, today) ==
    /\ streak' = [today |-> today,
                  state |-> GetStreakStateOp(habit, habits, today)]
    /\ UNCHANGED <<habits, evaluation, advisor, penanceVars, intakeVars, quotaVars, platformVars>>

MaxHabitLogs == 2

\* the records that arrived after day 27, where the histories the lake
\* starts with end
Arrived ==
    {i \in DOMAIN habits :
        ~Parseable(habits[i].timestamp) \/ habits[i].timestamp.date > 27}

\* ingest_from_landing_zone stores a diary record carrying a habit
IngestHabitRecord(habit, ts) ==
    /\ Cardinality(Arrived) < MaxHabitLogs
    /\ habits' = Append(habits, [habit |-> habit, timestamp |-> ts])
    \* results computed before no longer describe the lake
    /\ streak' = NoStreak
    /\ advisor' = NoAdvice
    /\ UNCHANGED <<evaluation, penanceVars, intakeVars, quotaVars, platformVars>>

----------------------------------------------------------------------------
(* StreakSpec: the lake holds the records of "exercise" for the n days up   *)
(* to day 27, some days missed; a few more records arrive for the days     *)
(* after it, in any order.                                                 *)

RunLengths == {0, 6, 7, 14, 28}
\* the days missed: none, one a week back, one more a week before that, or
\* two in a row there
MissedDays == {{}, {20}, {13, 20}, {12, 13, 20}}
RECURSIVE DayRecords(_, _, _)
DayRecords(habit, first, days) ==
    IF first > 27 THEN <<>>
    ELSE (IF first \in days
            THEN <<[habit |-> habit, timestamp |-> Day(first)]>> ELSE <<>>)
           \o DayRecords(habit, first + 1, days)
RunRecords(habit, n, missed) ==
    DayRecords(habit, 28 - n, ((28 - n)..27) \ missed)
LaterTimestamps == {Day(28), Day(29), Day(30), Day(31), BadTimestamp}
StreakDates == 27..32

StreakInit ==
    /\ InitButHabits
    /\ \E n \in RunLengths, missed \in MissedDays :
         habits = RunRecords("exercise", n, missed)

StreakNext ==
    \/ \E ts \in LaterTimestamps : IngestHabitRecord("exercise", ts)
    \/ \E today \in StreakDates : GetStreakState("exercise", today)

StreakSpec == StreakInit /\ [][StreakNext]_vars

----------------------------------------------------------------------------
(* Claims about the streak engine *)

HasStreak == streak.state.habit # "no call"
\* the completion dates of the habit asked for
Dates ==
    {habits[i].timestamp.date :
        i \in {j \in DOMAIN habits :
                 /\ habits[j].habit = streak.state.habit
                 /\ "date" \in DOMAIN habits[j].timestamp}}
Oldest == CHOOSE d \in Dates : \A e \in Dates : d <= e
Latest == CHOOSE d \in Dates : \A e \in Dates : d >= e
\* the length of the unbroken run that ends on day d
RunEndingAt(d) ==
    CHOOSE n \in 0..Cardinality(Dates) :
        /\ \A k \in 1..n : (d - k + 1) \in Dates
        /\ (d - n) \notin Dates

\* C14: when the completion dates cover a range ending at the reference date
\* but for one isolated 1-day gap, and at least 7 consecutive completed days
\* precede the gap, streak_days spans the whole range (every completed day
\* from the oldest one on is counted) and grace_consumed is 1.  (With a
\* second gap beyond the budget the streak ends at the first gap that cannot
\* be bridged.)
C14_GraceBridgesGap ==
    (HasStreak /\ Dates # {}) =>
      LET gaps == (Oldest..streak.today) \ Dates
      IN  (/\ Latest <= streak.today
           /\ Cardinality(gaps) = 1
           /\ \A g \in gaps : RunEndingAt(g - 1) >= 7) =>
            /\ streak.state.streak_days = Cardinality(Dates)
            /\ streak.state.grace_consumed = 1

\* C15: the walk passes over a missing day only if the day before it is
\* completed and fewer than min(bare_seed // 7, 3) gaps were bridged before;
\* so two or more consecutive missing days always end the streak and
\* grace_consumed never exceeds min(bare_seed // 7, 3).
C15_OnlyIsolatedGapsBridged ==
    (HasStreak /\ Dates # {}) =>
      LET s == streak.state.streak_days
          g == streak.state.grace_consumed
          stop == streak.today - s - g
          walked == (stop + 1)..streak.today
          allowed == IF RunEndingAt(Latest) \div 7 < 3
                       THEN RunEndingAt(Latest) \div 7 ELSE 3
      IN  /\ Cardinality(walked \cap Dates) = s
          /\ Cardinality(walked \ Dates) = g
          /\ \A m \in walked \ Dates : (m - 1) \in Dates
          /\ g <= allowed
          /\ \A m \in 0..streak.today :
               (m \notin Dates /\ (m - 1) \notin Dates) => stop >= m

\* a gap was bridged, and a gap of two days stopped the walk
C15_Witness ==
    /\ HasStreak
    /\ streak.state.grace_consumed = 1
    /\ streak.state.streak_days > 7
    /\ LET stop == streak.today - streak.state.streak_days - 1
       IN  /\ stop \notin Dates
           /\ (stop - 1) \notin Dates
           /\ \E d \in Dates : d < stop

\* C16: at_risk holds exactly when streak_days >= 7 and the reference date
\* has no completion; when the latest completion is the day before the
\* reference date and ends an unbroken run of n >= 7 days, streak_days >= n
\* and at_risk holds.
C16_AtRisk ==
    HasStreak =>
      /\ streak.state.at_risk
           <=> (streak.state.streak_days >= 7 /\ streak.today \notin Dates)
      /\ (Dates # {} /\ Latest = streak.today - 1 /\ RunEndingAt(Latest) >= 7) =>
           /\ streak.state.streak_days >= RunEndingAt(Latest)
           /\ streak.state.at_risk

\* a run of 7 days that ended yesterday
C16_Witness ==
    /\ HasStreak
    /\ Dates # {}
    /\ Latest = streak.today - 1
    /\ RunEndingAt(Latest) = 7
    /\ streak.state.streak_days = 7
    /\ streak.state.at_risk

\* C17 as stated: grace_total_earned is streak_days // 7 capped at 3, and
\* grace_available lies between 0 and 3.
C17_GraceEarnedCapped ==
    HasStreak =>
      /\ streak.state.grace_total_earned
           = (IF streak.state.streak_days \div 7 < 3
                THEN streak.state.streak_days \div 7 ELSE 3)
      /\ streak.state.grace_available \in 0..3

\* C17, amended: grace_total_earned is streak_days // 7 without a cap; the
\* cap of 3 is on grace_available, which is grace_total_earned minus
\* grace_consumed, kept between 0 and 3.
C17_GraceAvailableCapped ==
    HasStreak =>
      /\ streak.state.grace_total_earned = streak.state.streak_days \div 7
      /\ streak.state.grace_available \in 0..3
      /\ LET left == streak.state.grace_total_earned - streak.state.grace_consumed
         IN  streak.state.grace_available
               = (IF left < 0 THEN 0 ELSE IF left > 3 THEN 3 ELSE left)

\* a streak of 28 days or more has earned 4
C17_Witness ==
    /\ HasStreak
    /\ streak.state.streak_days >= 28
    /\ streak.state.grace_total_earned > 3
    /\ streak.state.grace_available = 3

Reverse(seq) == [k \in 1..Len(seq) |-> seq[Len(seq) + 1 - k]]
\* one record per date of the set, oldest first
RECURSIVE InDateOrder(_, _, _, _)
InDateOrder(habit, dates, from, to) ==
    IF from > to THEN <<>>
    ELSE (IF from \in dates
            THEN <<[habit |-> habit, timestamp |-> Day(from)]>> ELSE <<>>)
           \o InDateOrder(habit, dates, from + 1, to)
OneRecordPerDate ==
    IF Dates = {} THEN <<>>
    ELSE InDateOrder(streak.state.habit, Dates, Oldest, Latest)

\* C18: the StreakState depends only on the set of distinct completion dates
\* and the reference date: more records for a day that has one, duplicated
\* records or another order of the records never change any field.
C18_SetSemantics ==
    HasStreak =>
      LET stateOf(records) ==
              GetStreakStateOp(streak.state.habit, records, streak.today)
      IN  /\ stateOf(OneRecordPerDate) = streak.state
          /\ stateOf(Reverse(habits)) = streak.state
          /\ \A i \in DOMAIN habits :
               /\ stateOf(Append(habits, habits[i])) = streak.state
               /\ stateOf(<<habits[i]>> \o habits) = streak.state
               /\ stateOf(<<habits[i]>> \o RemoveAt(habits, i)) = streak.state

\* two records of one day, counted once in a streak that goes on behind it
C18_Witness ==
    /\ HasStreak
    /\ streak.state.streak_days > 7
    /\ \E i, j \in DOMAIN habits :
         /\ i < j
         /\ "date" \in DOMAIN habits[i].timestamp
         /\ habits[i].timestamp = habits[j].timestamp
         /\ habits[i].timestamp.date = streak.today

----------------------------------------------------------------------------
(* advisor.py *)

STRUGGLING == "struggling"
HOLDING == "holding"
THRIVING == "thriving"
TrackedSubstances == {"3-cmc", "k", "x", "thc"}
TrackedHabits == {"exercise", "supplements", "sleep_target", "coding_drill"}

AdvisorStateHabitsFirst(coaching, at_risk_count) ==
    IF at_risk_count >= 3 THEN STRUGGLING
    ELSE IF at_risk_count >= 1 THEN HOLDING
    ELSE IF coaching THEN STRUGGLING
    ELSE THRIVING

\* lines 33-36 and 45-49: the returns, in the code's order
AdvisorStateOf(coaching, at_risk_count) ==
    IF coaching THEN STRUGGLING
    ELSE IF at_risk_count >= 3 THEN STRUGGLING
    ELSE IF at_risk_count >= 1 THEN HOLDING
    ELSE THRIVING

\* compute_advisor_state, lines 30-49; both engines read the day of the call
ComputeAdvisorStateOp(intake_records, habit_records, today) ==
    LET coaching ==
            \E sub \in TrackedSubstances :
                LET qs == GetQuotaStateOp(sub, intake_records, today)
                IN  qs # NoneState /\ qs.coaching_flag
        at_risk_count ==
            Cardinality({habit \in TrackedHabits :
                           GetStreakStateOp(habit, habit_records, today).at_risk})
    IN  AdvisorStateOf(coaching, at_risk_count)

ComputeAdvisorState(today) ==
    /\ advisor' = [today |-> today,
                   state |-> ComputeAdvisorStateOp(intake, habits, today)]
    /\ UNCHANGED <<habits, evaluation, streak, penanceVars, intakeVars, quotaVars, platformVars>>

----------------------------------------------------------------------------
(* AdvisorSpec: some habits have a run of 7 days ending on day 27 (a        *)
(* Sunday); records of day 28 arrive, intakes of day 28 are logged, and the *)
(* advisor is asked on day 28 or 29.                                       *)

StreakingHabits ==
    {{}, {"exercise"}, {"exercise", "supplements"},
     {"exercise", "supplements", "sleep_target"}, TrackedHabits}
AdvisorDates == {28, 29}

AdvisorInit ==
    /\ InitButHabits
    /\ \E streaking \in StreakingHabits :
         habits =
           (IF "exercise" \in streaking
              THEN RunRecords("exercise", 7, {}) ELSE <<>>)
           \o (IF "supplements" \in streaking
                 THEN RunRecords("supplements", 7, {}) ELSE <<>>)
           \o (IF "sleep_target" \in streaking
                 THEN RunRecords("sleep_target", 7, {}) ELSE <<>>)
           \o (IF "coding_drill" \in streaking
                 THEN RunRecords("coding_drill", 7, {}) ELSE <<>>)

AdvisorNext ==
    \/ \E habit \in TrackedHabits : IngestHabitRecord(habit, Day(28))
    \/ \E sub \in {"x", "thc"} :
         LogDrugIntake(sub, "4", ADDICTION_THERAPY, Ts(28, 8, WarsawOffset))
    \/ \E today \in AdvisorDates : ComputeAdvisorState(today)

AdvisorSpec == AdvisorInit /\ [][AdvisorNext]_vars

----------------------------------------------------------------------------
(* Claims about the advisor *)

Advised == advisor.state # "no call"
\* the tracked substances whose quota state of the day has coaching_flag
Coached ==
    {sub \in TrackedSubstances :
        LET qs == GetQuotaStateOp(sub, intake, advisor.today)
        IN  qs.status # "None" /\ qs.coaching_flag}
\* the tracked habits at risk on the day
HabitsAtRisk ==
    {habit \in TrackedHabits :
        GetStreakStateOp(habit, habits, advisor.today).at_risk}

\* C19: compute_advisor_state returns STRUGGLING whenever a tracked
\* substance's quota state has coaching_flag, whatever the habits; otherwise
\* STRUGGLING iff at least 3 tracked habits are at risk, HOLDING iff 1 or 2
\* are, THRIVING iff none is.
C19_AdvisorState ==
    Advised =>
      /\ Coached # {} => advisor.state = STRUGGLING
      /\ Coached = {} =>
           /\ (advisor.state = STRUGGLING) <=> (Cardinality(HabitsAtRisk) >= 3)
           /\ (advisor.state = HOLDING) <=> (Cardinality(HabitsAtRisk) \in {1, 2})
           /\ (advisor.state = THRIVING) <=> (HabitsAtRisk = {})

\* a substance over its quota while one habit is at risk
C19_Witness ==
    /\ Advised
    /\ Coached # {}
    /\ Cardinality(HabitsAtRisk) = 1
    /\ advisor.state = STRUGGLING

----------------------------------------------------------------------------
(* The data lake as files: _store_record (collectors.py lines 27-49) and    *)
(* ingest_from_landing_zone (ingestion.py lines 86-145).                    *)
(*                                                                          *)
(* A lake file is [path, content]; a path is <<directory, ts, label, idx>>  *)
(* for the file  <directory>/<ts>_<label>_<idx>.age .  No two files of the  *)
(* lake have the same path.                                                 *)

MaxNow == 1
MaxWritten == 3

Path(dir, ts, label, idx) == <<dir, ts, label, idx>>

Exists(l, path) == \E f \in l : f.path = path

\* Path.write_bytes: creates the file, or replaces the content of an
\* existing one
WriteBytes(l, path, content) ==
    {f \in l : f.path # path} \cup {[path |-> path, content |-> content]}

\* collectors.py lines 33-38: the first index whose filename is unused
RECURSIVE FreeIndex(_, _, _, _)
FreeIndex(l, dir, ts, idx) ==
    IF Exists(l, Path(dir, ts, dir, idx))
      THEN FreeIndex(l, dir, ts, idx + 1)
      ELSE idx

\* the records the model stores: intake records with their violation flag
LakeRecords ==
    { [substance |-> "bcd", cooldown_violated |-> b] : b \in BOOLEAN }

LakeCategories == {"intake"}

\* _store_record(record, category, config), collectors.py lines 27-39 (the
\* audit line of 41-49 is not part of the lake)
StoreRecord(record, category) ==
    /\ Len(written) < MaxWritten
    /\ LET dest_file == Path(category, utcnow, category, FreeIndex(lake, category, utcnow, 0))
       IN /\ lake' = WriteBytes(lake, dest_file, record)
          /\ written' = Append(written, [path |-> dest_file, content |-> record])
    /\ UNCHANGED <<raw, utcnow, penanceVars, intakeVars, quotaVars, engineVars,
                   schedulerVars, registryVars, routerVars, milestoneVars>>

\* a file appears in the landing zone: data/raw/<category>/<stem><suffix>
\* holding a list of records
RawStems == {"intake", "export"}
RawSuffixes == {".json", ".csv"}
RawContents == { <<r>> : r \in LakeRecords } \cup
               { <<[substance |-> "bcd", cooldown_violated |-> TRUE],
                   [substance |-> "bcd", cooldown_violated |-> FALSE]>> }

RawRecordCount == LET Sum[S \in SUBSET raw] ==
                          IF S = {} THEN 0
                          ELSE LET f == CHOOSE f \in S : TRUE
                               IN Len(f.records) + Sum[S \ {f}]
                  IN Sum[raw]

DropRawFile(category, stem, suffix, records) ==
    /\ ~ \E f \in raw : f.category = category /\ f.stem = stem /\ f.suffix = suffix
    /\ Len(written) + RawRecordCount + Len(records) <= MaxWritten
    /\ raw' = raw \cup {[category |-> category, stem |-> stem, suffix |-> suffix,
                         records |-> records]}
    /\ UNCHANGED <<lake, utcnow, written, penanceVars, intakeVars, quotaVars, engineVars,
                   schedulerVars, registryVars, routerVars, milestoneVars>>

\* ingestion.py lines 116-123: the records of one raw file, from index i
RECURSIVE IngestRecords(_, _, _, _)
IngestRecords(l, file, ts, i) ==
    IF i > Len(file.records) THEN l
    ELSE IngestRecords(
             WriteBytes(l, Path(file.category, ts, file.stem, i - 1), file.records[i]),
             file, ts, i + 1)

\* ingestion.py lines 102-136: the files of the landing zone in the order
\* rglob returned them
RECURSIVE IngestFiles(_, _, _)
IngestFiles(l, files, ts) ==
    IF files = <<>> THEN l
    ELSE IngestFiles(IngestRecords(l, Head(files), ts, 1), Tail(files), ts)

RECURSIVE WrittenByRecords(_, _, _)
WrittenByRecords(file, ts, i) ==
    IF i > Len(file.records) THEN <<>>
    ELSE <<[path |-> Path(file.category, ts, file.stem, i - 1),
            content |-> file.records[i]]>> \o WrittenByRecords(file, ts, i + 1)

RECURSIVE WrittenByFiles(_, _)
WrittenByFiles(files, ts) ==
    IF files = <<>> THEN <<>>
    ELSE WrittenByRecords(Head(files), ts, 1) \o WrittenByFiles(Tail(files), ts)

\* the orders in which rglob can return a set of files
Orders(S) ==
    { o \in [1..Cardinality(S) -> S] : \A i, j \in 1..Cardinality(S) : i # j => o[i] # o[j] }

\* ingest_from_landing_zone(config): every file of the landing zone is
\* parsed, its records are written under the second the file was read
\* in, and the raw file is deleted (line 136)
IngestFromLandingZone ==
    /\ raw # {}
    /\ \E files \in Orders(raw) :
          /\ lake' = IngestFiles(lake, files, utcnow)
          /\ written' = written \o WrittenByFiles(files, utcnow)
    /\ raw' = {}
    /\ UNCHANGED <<utcnow, penanceVars, intakeVars, quotaVars, engineVars,
                   schedulerVars, registryVars, routerVars, milestoneVars>>

\* one second passes
TickSecond ==
    /\ utcnow < MaxNow
    /\ utcnow' = utcnow + 1
    /\ UNCHANGED <<lake, raw, written, penanceVars, intakeVars, quotaVars, engineVars,
                   schedulerVars, registryVars, routerVars, milestoneVars>>

LakeNext ==
    \/ \E record \in LakeRecords, category \in LakeCategories :
          StoreRecord(record, category)
    \/ \E category \in LakeCategories, stem \in RawStems, suffix \in RawSuffixes,
          records \in RawContents :
          DropRawFile(category, stem, suffix, records)
    \/ IngestFromLandingZone
    \/ TickSecond

LakeSpec == Init /\ [][LakeNext]_vars

----------------------------------------------------------------------------
(* Claim C21 *)

InLake(w) == [path |-> w.path, content |-> w.content] \in lake

\* C21: no store operation overwrites or alters an existing lake file:
\* after any sequence of stores (collector stores and landing-zone
\* ingestions) the lake holds one file per stored record, and every record
\* stored earlier is still there with the content (flags included) it was
\* stored with.
C21_NoStoreOverwrites ==
    /\ Cardinality(lake) = Len(written)
    /\ \A i \in 1..Len(written) : InLake(written[i])

----------------------------------------------------------------------------
(* The scheduler (scheduler.py lines 236-334) with the /diary and /task     *)
(* admin commands (app.py lines 123-141, channels/telegram.py lines         *)
(* 244-275).                                                                *)
(*                                                                          *)
(* The clock counts half minutes: _loop sleeps 30 seconds between two       *)
(* iterations.  A time of day is its minute of the day, minute 0 being      *)
(* 00:00; the day of the model is DayMinutes minutes long.  A questionnaire *)
(* flow is a coroutine inside run_questionnaire that waits for the user's   *)
(* answers; the per-question timeouts end it MaxFlowTicks half minutes      *)
(* after its start at the latest.                                           *)

DayMinutes == 3
MaxDays == 3
MaxCommands == 2
MaxFlowTicks == 3

TicksPerMinute == 2
MaxClock == MaxDays * DayMinutes * TicksPerMinute

MinuteOf(t) == (t \div TicksPerMinute) % DayMinutes
DayOf(t) == t \div (TicksPerMinute * DayMinutes)

\* _default_schedules(), scheduler.py lines 140-157, with the trigger
\* times of settings.schedule_morning and settings.schedule_evening
MORNING == "morning_supplement_check"
EVENING == "evening_intake_log"
EntryNames == {MORNING, EVENING}
DefaultSchedules(morning, evening) ==
    << [name |-> MORNING, trigger_time |-> morning],
       [name |-> EVENING, trigger_time |-> evening] >>

ScheduleMorning == {0, 1}
ScheduleEvening == {1, 2}

NoTask == 0
NoCallback == [kind |-> "none"]

Flow(id, kind, name) == [id |-> id, kind |-> kind, name |-> name, left |-> MaxFlowTicks]

\* the coroutine of Scheduler._loop is at its sleep (line 305), inside the
\* for loop before entry number idx (line 289), or at the await of the
\* questionnaire task of entry number idx (line 297)
LoopSleeping(wake) == [pc |-> "sleep", wake |-> wake]
LoopFor(idx, current_time) == [pc |-> "for", idx |-> idx, current_time |-> current_time]
LoopAwaiting(idx, current_time, task) ==
    [pc |-> "await", idx |-> idx, current_time |-> current_time, task |-> task]

SchedulerInit ==
    /\ PenanceEnginesInit
    /\ habits = <<>>
    /\ LakeInit
    /\ calls = <<>>
    /\ providers = <<>>
    /\ sensitivity_map = <<>>
    /\ registrations = <<>>
    /\ utc_today = 0
    /\ celebrations = [today |-> -1, records |-> <<>>, messages |-> {}]
    /\ announced = {}
    /\ clock = 0
    /\ \E morning \in ScheduleMorning, evening \in ScheduleEvening :
          schedules = DefaultSchedules(morning, evening)
    /\ loop = LoopSleeping(0)
    /\ fired_today = {}
    /\ active_questionnaire = NoTask
    /\ flows = {}
    /\ tasks = 0
    /\ commands = 0
    /\ callback = NoCallback
    /\ fired = [e \in EntryNames |-> [d \in 0..MaxDays |-> 0]]
    /\ cleared = {}

nonSchedulerVars == <<penanceVars, intakeVars, quotaVars, engineVars, lakeVars,
                      registryVars, routerVars, milestoneVars>>

\* _loop lines 281-287: the sleep is over; read the time, reset the fired
\* set in the minute 00:00, enter the for loop
LoopWake ==
    /\ loop.pc = "sleep"
    /\ loop.wake <= clock
    /\ LET current_time == MinuteOf(clock)
       IN /\ IF current_time = 0
               THEN /\ fired_today' = {}
                    /\ cleared' = cleared \cup {DayOf(clock)}
               ELSE UNCHANGED <<fired_today, cleared>>
          /\ loop' = LoopFor(1, current_time)
    /\ UNCHANGED <<clock, schedules, active_questionnaire, flows, tasks, commands,
                   callback, fired, nonSchedulerVars>>

\* _loop lines 289-297 for one entry, and line 305 after the last one
LoopEntry ==
    /\ loop.pc = "for"
    /\ IF loop.idx > Len(schedules)
         THEN /\ loop' = LoopSleeping(clock + 1)
              /\ UNCHANGED <<fired_today, active_questionnaire, flows, tasks, fired>>
         ELSE LET entry == schedules[loop.idx]
              IN IF entry.name \in fired_today \/ loop.current_time # entry.trigger_time
                   THEN /\ loop' = LoopFor(loop.idx + 1, loop.current_time)
                        /\ UNCHANGED <<fired_today, active_questionnaire, flows, tasks,
                                       fired>>
                   ELSE /\ fired_today' = fired_today \cup {entry.name}
                        /\ tasks' = tasks + 1
                        /\ active_questionnaire' = tasks'
                        /\ flows' = flows \cup {Flow(tasks', "scheduled", entry.name)}
                        /\ loop' = LoopAwaiting(loop.idx, loop.current_time, tasks')
                        /\ fired' = [fired EXCEPT ![entry.name][DayOf(clock)] = @ + 1]
    /\ UNCHANGED <<clock, schedules, commands, callback, cleared, nonSchedulerVars>>

\* what the end of task id (finished or cancelled) does to the coroutines
\* that await it: _loop lines 298-303, trigger_now lines 330-333
LoopAfter(id) ==
    IF loop.pc = "await" /\ loop.task = id
      THEN LoopFor(loop.idx + 1, loop.current_time)
      ELSE loop

ActiveAfter(id) ==
    IF \/ loop.pc = "await" /\ loop.task = id
       \/ \E f \in flows : f.id = id /\ f.kind = "task"
      THEN NoTask
      ELSE active_questionnaire

\* the user has answered the last question of a flow, or its last timeout
\* has passed: run_questionnaire returns and the answers are processed
FlowEnds ==
    /\ \E f \in flows :
          /\ flows' = flows \ {f}
          /\ loop' = LoopAfter(f.id)
          /\ active_questionnaire' = ActiveAfter(f.id)
    /\ UNCHANGED <<clock, schedules, fired_today, tasks, commands, callback, fired,
                   cleared, nonSchedulerVars>>

\* Scheduler.interrupt_current, lines 260-268: there is a task to cancel
Interrupted ==
    active_questionnaire # NoTask /\ \E f \in flows : f.id = active_questionnaire

\* lines 263-265: the active task is cancelled and awaited.  The coroutine
\* that awaited the task before (the loop, or trigger_now) runs first and
\* clears the task reference in its finally clause
InterruptCurrent(cb) ==
    /\ Interrupted
    /\ flows' = {f \in flows : f.id # active_questionnaire}
    /\ loop' = LoopAfter(active_questionnaire)
    /\ active_questionnaire' = NoTask
    /\ callback' = cb
    /\ tasks' = tasks

\* app.py line 128: run_questionnaire(ON_DEMAND_DIARY), not a task of the
\* scheduler
StartDiary ==
    /\ tasks' = tasks + 1
    /\ flows' = flows \cup {Flow(tasks', "diary", "diary_entry")}

\* Scheduler.trigger_now, lines 307-329: the entry's questionnaire becomes
\* the active task; an unknown name starts nothing
TriggerNow(schedule_name) ==
    IF \E i \in 1..Len(schedules) : schedules[i].name = schedule_name
      THEN /\ tasks' = tasks + 1
           /\ flows' = flows \cup {Flow(tasks', "task", schedule_name)}
           /\ active_questionnaire' = tasks'
      ELSE UNCHANGED <<tasks, flows, active_questionnaire>>

\* /diary: _handle_diary_command starts _diary_entry_callback (app.py lines
\* 123-129) up to its first await that waits
DiaryCommand ==
    /\ callback = NoCallback
    /\ commands < MaxCommands
    /\ commands' = commands + 1
    /\ IF Interrupted
         THEN InterruptCurrent([kind |-> "diary"])
         ELSE /\ StartDiary
              /\ UNCHANGED <<loop, active_questionnaire, callback>>
    /\ UNCHANGED <<clock, schedules, fired_today, fired, cleared, nonSchedulerVars>>

\* /task <name>: _handle_task_command starts _interrupt_task_callback
\* (app.py lines 131-141) up to its first await that waits
TaskCommand(schedule_name) ==
    /\ callback = NoCallback
    /\ commands < MaxCommands
    /\ commands' = commands + 1
    /\ IF Interrupted
         THEN InterruptCurrent([kind |-> "task", name |-> schedule_name])
         ELSE /\ TriggerNow(schedule_name)
              /\ UNCHANGED <<loop, callback>>
    /\ UNCHANGED <<clock, schedules, fired_today, fired, cleared, nonSchedulerVars>>

\* interrupt_current resumes after the loop has run as far as it can: line
\* 266 clears the task reference, then the callback starts its flow
CallbackResumes ==
    /\ callback # NoCallback
    /\ loop.pc # "for"
    /\ callback' = NoCallback
    /\ IF callback.kind = "diary"
         THEN /\ StartDiary
              /\ active_questionnaire' = NoTask
         ELSE IF \E i \in 1..Len(schedules) : schedules[i].name = callback.name
                THEN TriggerNow(callback.name)
                ELSE /\ active_questionnaire' = NoTask
                     /\ UNCHANGED <<tasks, flows>>
    /\ UNCHANGED <<clock, schedules, loop, fired_today, commands, fired, cleared,
                   nonSchedulerVars>>

\* half a minute passes: no coroutine is ready to run, and no flow is past
\* its last timeout
HalfMinute ==
    /\ clock < MaxClock
    /\ \/ loop.pc = "await"
       \/ loop.pc = "sleep" /\ loop.wake > clock
    /\ callback = NoCallback
    /\ \A f \in flows : f.left > 0
    /\ clock' = clock + 1
    /\ flows' = { [f EXCEPT !.left = @ - 1] : f \in flows }
    /\ UNCHANGED <<schedules, loop, fired_today, active_questionnaire, tasks, commands,
                   callback, fired, cleared, nonSchedulerVars>>

TaskNames == {MORNING, "no_such_schedule"}

SchedulerNext ==
    \/ LoopWake
    \/ LoopEntry
    \/ FlowEnds
    \/ DiaryCommand
    \/ \E schedule_name \in TaskNames : TaskCommand(schedule_name)
    \/ CallbackResumes
    \/ HalfMinute

SchedulerSpec == SchedulerInit /\ [][SchedulerNext]_vars

----------------------------------------------------------------------------
(* Claim C22 *)

\* C22: at most one questionnaire flow (scheduled, /task-triggered or
\* /diary) is awaiting user answers at any time: starting a new flow never
\* leaves an earlier flow still running.
C22_OneFlowAtATime == Cardinality(flows) <= 1

----------------------------------------------------------------------------
(* Claims C25 and C26 *)

\* C25: under the scheduler loop each schedule entry is triggered at most
\* once per calendar day, for every trigger time including 00:00.
C25_OncePerDay ==
    \A e \in EntryNames, d \in 0..MaxDays : fired[e][d] <= 1

TicksPerDay == TicksPerMinute * DayMinutes

\* the minute 00:00 of day d is over
MidnightPassed(d) == clock >= d * TicksPerDay + TicksPerMinute

\* C26: while the loop keeps running the fired-today set is reset at every
\* midnight, and an entry that fired on day D fires again on day D+1,
\* whatever the time the answers take.
C26_FiresEveryDay ==
    /\ \A d \in 0..MaxDays : MidnightPassed(d) => d \in cleared
    /\ \A e \in EntryNames, d \in 0..(MaxDays - 1) :
          fired[e][d] > 0 /\ DayOf(clock) >= d + 2 => fired[e][d + 1] > 0

----------------------------------------------------------------------------
(* dispatch_tool, registry.py lines 228-266.                                *)
(*                                                                          *)
(* calls holds one record per dispatch_tool invocation, finished or waiting *)
(* for confirm_fn; several invocations can be waiting at once.              *)

MaxDispatches == 3

\* TOOL_REGISTRY, registry.py lines 35-212: requires_confirmation of the
\* tools the model dispatches
TOOL_REGISTRY ==
    [name \in {"notify_user", "ingest_cc_history"} |-> name = "ingest_cc_history"]

ToolNames == {"notify_user", "ingest_cc_history", "nonexistent_tool"}

\* what confirm_fn can return: ConfirmationResult, channels/base.py 28-33
Verdicts == {"APPROVED", "DENIED", "DENIED (timed out after 5 minutes)"}
NotAsked == "not asked"

\* registry.py line 256, as written and with a test that lets every
\* verdict but a plain denial through
ApprovedUnlessDenied(verdict) == verdict # "DENIED"

Approved(verdict) == verdict = "APPROVED"

\* lines 260-266: the handler is awaited; an exception becomes an error
\* result
HandlerOutcomes == {"returned", "raised"}
HandlerResult(outcome) ==
    IF outcome = "raised" THEN [error |-> "execution failed"]
                          ELSE [handler |-> "returned"]

Call(name, has_confirm_fn, pcd, verdict, handler_called, res) ==
    [name |-> name, confirm_fn |-> has_confirm_fn, pc |-> pcd, verdict |-> verdict,
     handler_called |-> handler_called, result |-> res]

NoResult == [pending |-> TRUE]

\* dispatch_tool(name, input_data, confirm_fn) up to its first await that
\* waits: the whole call when no confirmation is asked for
DispatchTool(name, has_confirm_fn, outcome) ==
    /\ Len(calls) < MaxDispatches
    /\ calls' = Append(calls,
          IF name \notin DOMAIN TOOL_REGISTRY
            THEN Call(name, has_confirm_fn, "done", NotAsked, FALSE,
                      [error |-> "unknown tool"])
          ELSE IF TOOL_REGISTRY[name]
            THEN IF ~ has_confirm_fn
                   THEN Call(name, has_confirm_fn, "done", NotAsked, FALSE,
                             [error |-> "no confirm function"])
                   ELSE Call(name, has_confirm_fn, "confirming", NotAsked, FALSE,
                             NoResult)
          ELSE Call(name, has_confirm_fn, "done", NotAsked, TRUE,
                    HandlerResult(outcome)))
    /\ UNCHANGED <<penanceVars, intakeVars, quotaVars, engineVars, lakeVars,
                   schedulerVars, routerVars, milestoneVars>>

\* lines 255-266: confirm_fn returns its verdict to a waiting dispatch
ConfirmFnReturns(verdict, outcome) ==
    /\ \E i \in 1..Len(calls) :
          /\ calls[i].pc = "confirming"
          /\ calls' = [calls EXCEPT ![i] =
                IF Approved(verdict)
                  THEN Call(@.name, @.confirm_fn, "done", verdict, TRUE,
                            HandlerResult(outcome))
                  ELSE Call(@.name, @.confirm_fn, "done", verdict, FALSE,
                            [denied |-> "by user"])]
    /\ UNCHANGED <<penanceVars, intakeVars, quotaVars, engineVars, lakeVars,
                   schedulerVars, routerVars, milestoneVars>>

DispatchNext ==
    \/ \E name \in ToolNames, has_confirm_fn \in BOOLEAN, outcome \in HandlerOutcomes :
          DispatchTool(name, has_confirm_fn, outcome)
    \/ \E verdict \in Verdicts, outcome \in HandlerOutcomes :
          ConfirmFnReturns(verdict, outcome)

DispatchSpec == Init /\ [][DispatchNext]_vars

----------------------------------------------------------------------------
(* Claim C23 *)

Unregistered(c) == c.name \notin DOMAIN TOOL_REGISTRY
NeedsApproval(c) == ~ Unregistered(c) /\ TOOL_REGISTRY[c.name]

\* C23: dispatch_tool never runs a handler for a name that is not in the
\* registry and returns an error result instead; for a tool marked
\* requires_confirmation the handler runs only after confirm_fn returned
\* APPROVED within the same dispatch; a denied or timed-out verdict, or a
\* missing confirm_fn, yields a result with the handler never called.
C23_GateBeforeHandler ==
    \A i \in 1..Len(calls) :
       LET c == calls[i]
       IN /\ Unregistered(c) =>
                ~ c.handler_called /\ c.result = [error |-> "unknown tool"]
          /\ NeedsApproval(c) /\ c.handler_called =>
                c.confirm_fn /\ c.verdict = "APPROVED"
          /\ NeedsApproval(c) /\ c.pc = "done"
                /\ (~ c.confirm_fn \/ c.verdict # "APPROVED") =>
                ~ c.handler_called /\ c.result # NoResult
                /\ c.result # [handler |-> "returned"]

C23_Witness ==
    \E i, j, k \in 1..Len(calls) :
       /\ NeedsApproval(calls[i]) /\ calls[i].handler_called
       /\ NeedsApproval(calls[j]) /\ calls[j].verdict = "DENIED (timed out after 5 minutes)"
       /\ Unregistered(calls[k]) /\ calls[k].pc = "done"

----------------------------------------------------------------------------
(* ChannelRouter, channels/router.py lines 15-56.                           *)
(*                                                                          *)
(* A provider is identified by its name (CommunicationProvider.name is the  *)
(* provider's unique name, channels/base.py lines 51-54).  providers is     *)
(* the key order of the dict _providers.                                    *)

MaxRegistrations == 3

\* Sensitivity, channels/base.py lines 20-25
Sensitivity == {"normal", "sensitive", "critical"}

ProviderNames == {"telegram", "whatsapp", "signal"}

\* the sensitivity_levels argument: None, or a list of levels
NoLevels == [given |-> FALSE, levels |-> {}]
Levels(S) == [given |-> TRUE, levels |-> S]
LevelArguments == {NoLevels} \cup { Levels(S) : S \in SUBSET Sensitivity }

\* router.py line 33: sensitivity_levels or list(Sensitivity)
RegisteredLevels(arg) == IF arg.levels = {} THEN Sensitivity ELSE arg.levels

\* router.py line 32: the keys of the dict after _providers[name] = provider
DictSet(keys, name) ==
    IF \E i \in 1..Len(keys) : keys[i] = name THEN keys ELSE Append(keys, name)

\* router.py lines 36-37, as written and without the test of line 36
ClaimLevelsLastWins(map, levels, name) ==
    [l \in DOMAIN map \cup levels |-> IF l \in levels THEN name ELSE map[l]]

ClaimLevels(map, levels, name) ==
    [l \in DOMAIN map \cup levels |-> IF l \in DOMAIN map THEN map[l] ELSE name]

\* ChannelRouter.register(provider, sensitivity_levels)
Register(provider, arg) ==
    /\ Len(registrations) < MaxRegistrations
    /\ providers' = DictSet(providers, provider)
    /\ sensitivity_map' = ClaimLevels(sensitivity_map, RegisteredLevels(arg), provider)
    /\ registrations' = Append(registrations, [provider |-> provider, arg |-> arg])
    /\ UNCHANGED <<penanceVars, intakeVars, quotaVars, engineVars, lakeVars,
                   schedulerVars, registryVars, milestoneVars>>

\* ChannelRouter.get_provider(sensitivity), lines 39-56
GetProvider(sensitivity) ==
    IF sensitivity \in DOMAIN sensitivity_map
         /\ \E i \in 1..Len(providers) : providers[i] = sensitivity_map[sensitivity]
      THEN sensitivity_map[sensitivity]
    ELSE IF providers = <<>>
      THEN "RuntimeError"
    ELSE providers[1]

RouterNext ==
    \E provider \in ProviderNames, arg \in LevelArguments : Register(provider, arg)

RouterSpec == Init /\ [][RouterNext]_vars

----------------------------------------------------------------------------
(* Claim C24 *)

\* the register calls that were made for a level, in call order
RegisteredFor(level) ==
    { i \in 1..Len(registrations) : level \in RegisteredLevels(registrations[i].arg) }

\* C24: after any sequence of register calls each sensitivity level is
\* served by the first provider that was registered for that level (a later
\* registration never takes over a claimed level), and a level that no
\* provider registered for falls back to the first registered provider.
C24_FirstRegisteredWins ==
    \A level \in Sensitivity :
       IF RegisteredFor(level) # {}
         THEN GetProvider(level) = registrations[SetMin(RegisteredFor(level))].provider
       ELSE IF registrations # <<>>
         THEN GetProvider(level) = registrations[1].provider
       ELSE GetProvider(level) = "RuntimeError"

C24_Witness ==
    /\ Len(registrations) = 3
    /\ Cardinality(RegisteredFor("critical")) = 2
    /\ registrations[SetMin(RegisteredFor("critical"))].provider = "whatsapp"
    /\ \E i \in RegisteredFor("critical") : registrations[i].provider = "signal"
    /\ RegisteredFor("sensitive") = {}
    /\ registrations[1].provider = "telegram"
    /\ GetProvider("critical") = "whatsapp"
    /\ GetProvider("sensitive") = "telegram"

----------------------------------------------------------------------------
(* check_milestones, advisor.py lines 129-151, over a lake that grows as    *)
(* the days pass.                                                           *)

MaxDay == 99
MaxLogDay == 8

\* advisor.py line 21
ADDICTION_MILESTONES == {7, 14, 30, 60, 90}

HabitCelebration(hit, habit) == [kind |-> "streak", milestone |-> hit, name |-> habit]
CleanCelebration(milestone, sub) == [kind |-> "clean", milestone |-> milestone, name |-> sub]

\* lines 133-137: the habit streak milestones
HabitCelebrations(all_habits, ref) ==
    { HabitCelebration(GetStreakStateOp(habit, all_habits, ref).streak_days, habit) :
        habit \in { h \in TrackedHabits :
                      check_milestone(GetStreakStateOp(h, all_habits, ref).streak_days)
                          # NoMilestone } }

\* line 146
CleanDays(week_n) == week_n * 7

\* lines 140-149: get_quota_state's week_n and units_used for each tracked
\* substance; units_used == 0 and week_n > 0, then clean_days == milestone
CleanCelebrations(all_records, ref) ==
    { CleanCelebration(c.clean_days, c.substance) :
        c \in { [substance |-> sub,
                 clean_days |->
                    CleanDays(WeekN(SubstanceRecords(sub, all_records),
                                    iso_week_start(ref)))] : sub \in
                  { s \in TrackedSubstances :
                      /\ UnitsUsed(SubstanceRecords(s, all_records),
                                   iso_week_start(ref)) = 0
                      /\ WeekN(SubstanceRecords(s, all_records),
                               iso_week_start(ref)) > 0 } }
          \cap { [substance |-> sub, clean_days |-> m] :
                   sub \in TrackedSubstances, m \in ADDICTION_MILESTONES } }

\* check_milestones(config), with the day of the call and the intake
\* records it read
CheckMilestonesOp(all_records, all_habits, ref) ==
    [today |-> ref,
     records |-> all_records,
     messages |-> HabitCelebrations(all_habits, ref)
                     \cup CleanCelebrations(all_records, ref)]

\* check_milestones is called (run_advisor, after the day's diary entry)
CheckMilestones ==
    /\ celebrations.today # utc_today
    /\ celebrations' = CheckMilestonesOp(intake, habits, utc_today)
    /\ announced' = announced \cup celebrations'.messages
    /\ UNCHANGED <<utc_today, penanceVars, intakeVars, quotaVars, engineVars, lakeVars,
                   schedulerVars, registryVars, routerVars>>

\* a use of the substance, or an entry of amount 0, is logged today
LogToday(sub, amount) ==
    /\ utc_today <= MaxLogDay
    /\ LogDrugIntake(sub, amount, ADDICTION_THERAPY, Ts(utc_today, 10, 0))

\* midnight UTC passes; the advisor has run today
NextDay ==
    /\ utc_today < MaxDay
    /\ celebrations.today = utc_today
    /\ utc_today' = utc_today + 1
    /\ UNCHANGED <<celebrations, announced, penanceVars, intakeVars, quotaVars,
                   engineVars, lakeVars, schedulerVars, registryVars, routerVars>>

MilestoneSubstances == {"x"}
MilestoneAmounts == {"0", "2"}

MilestoneNext ==
    \/ \E sub \in MilestoneSubstances, amount \in MilestoneAmounts : LogToday(sub, amount)
    \/ CheckMilestones
    \/ NextDay

MilestoneSpec == Init /\ [][MilestoneNext]_vars

----------------------------------------------------------------------------
(* Claims C27 and C30 *)

\* a record of a use (an amount above 0) of the substance on a day from
\* first to last
UsedBetween(records, sub, first, last) ==
    \E i \in DOMAIN records :
       /\ Lower(records[i].substance) = sub
       /\ Parseable(records[i].timestamp)
       /\ records[i].timestamp.date \in first..last
       /\ IsNumeric(records[i].amount)
       /\ Float(records[i].amount) > 0

\* C27: check_milestones announces an 'N d clean' milestone for a substance
\* only when the substance has completed N clean days: there is no recorded
\* use of it in the N days before the reference date.
C27_CleanMeansNoUse ==
    \A msg \in celebrations.messages :
       msg.kind = "clean" =>
          ~ UsedBetween(celebrations.records, msg.name,
                        celebrations.today - msg.milestone, celebrations.today - 1)

\* the substance has records and none of them is a use
NeverUsed(sub) ==
    /\ \E i \in DOMAIN intake : Lower(intake[i].substance) = sub
    /\ ~ UsedBetween(intake, sub, 0, MaxDay)

\* week_n * 7 is past the last milestone: no later call can announce one
PastAllMilestones(sub) ==
    WeekN(SubstanceRecords(sub, intake), iso_week_start(utc_today)) * 7 > 90

\* C30: every clean milestone in {7, 14, 30, 60, 90} is attainable: for a
\* tracked substance with no use there is, for each of the five values, a
\* reference date on which check_milestones announces it.
C30_EveryMilestoneAttainable ==
    \A sub \in MilestoneSubstances :
       NeverUsed(sub) /\ PastAllMilestones(sub) =>
          \A m \in ADDICTION_MILESTONES : CleanCelebration(m, sub) \in announced

----------------------------------------------------------------------------
(* Claim C28 *)

\* the number of completed days immediately before the reference date
CompletedBefore == RunEndingAt(streak.today - 1)

\* C28: a streak is not reported as lost before the day is over: when the
\* habit was completed on each of the n >= 1 days immediately before the
\* reference date, streak_days >= n whether or not the reference date has a
\* completion.
C28_StreakKeptUntilDayEnds ==
    (HasStreak /\ Dates # {}) => streak.state.streak_days >= CompletedBefore

----------------------------------------------------------------------------
(* get_quota_state over many weeks of decay.  decay_factor ** week_n is a   *)
(* double: below 2^-1075 it is 0.0.  The quota is kept as its base-2        *)
(* logarithm, in units of 1/10000 bit.                                      *)

MaxDecayWeeks == 7100

\* log2(1 / decay_factor) for the decay factors 0.85, 0.80 and 0.90
BitsLostPerWeek(params) ==
    CASE params.decay_num = 17 /\ params.decay_den = 20 -> 2345
      [] params.decay_num = 4 /\ params.decay_den = 5 -> 3219
      [] params.decay_num = 9 /\ params.decay_den = 10 -> 1520

\* log2(quota_week_0) for the quotas 10.0, 5.0, 2.0 and 14.0
Log2QuotaWeek0(params) ==
    CASE params.quota_week_0 = 10 -> 33219
      [] params.quota_week_0 = 5 -> 23219
      [] params.quota_week_0 = 2 -> 10000
      [] params.quota_week_0 = 14 -> 38074

\* a double power below 2^-1075 is 0.0
UnderflowBits == 1075 * 10000

\* line 83 in real numbers: a positive quota_week_0 times a power of a
\* positive factor is never 0
CurrentQuotaIsZeroExact(params, week_n) == params.quota_week_0 = 0

\* line 83 in doubles: decay_factor ** week_n underflows to 0.0
CurrentQuotaIsZero(params, week_n) ==
    \/ params.quota_week_0 = 0
    \/ week_n * BitsLostPerWeek(params) >= UnderflowBits

\* log2(current_quota) of a quota that is not 0
Log2CurrentQuota(params, week_n) ==
    Log2QuotaWeek0(params) - week_n * BitsLostPerWeek(params)

\* lines 99-112 for units_used 0 or 1
ClassifyDecayed(params, week_n, units_used) ==
    IF CurrentQuotaIsZero(params, week_n) /\ units_used > 0
      THEN [status |-> "zero_relapse", coaching_flag |-> FALSE,
            penance_triggered |-> TRUE]
    ELSE IF ~CurrentQuotaIsZero(params, week_n) /\ units_used = 1
               /\ Log2CurrentQuota(params, week_n) < 0
      THEN [status |-> "over", coaching_flag |-> TRUE, penance_triggered |-> FALSE]
    ELSE IF \/ CurrentQuotaIsZero(params, week_n) /\ units_used = 0
            \/ ~CurrentQuotaIsZero(params, week_n) /\ units_used = 1
                  /\ Log2CurrentQuota(params, week_n) = 0
      THEN [status |-> "at", coaching_flag |-> FALSE, penance_triggered |-> FALSE]
    ELSE [status |-> "under", coaching_flag |-> FALSE, penance_triggered |-> FALSE]

\* get_quota_state, lines 37-124, with current_quota kept as "is it 0.0"
GetDecayedQuotaStateOp(sub, all_records, reference_date) ==
    LET substance_lower == Lower(sub) IN
    IF substance_lower \notin DOMAIN SUBSTANCE_QUOTAS THEN NoneState
    ELSE
      LET params == SUBSTANCE_QUOTAS[substance_lower]
          current_week_start == iso_week_start(reference_date)
          substance_records == SubstanceRecords(substance_lower, all_records)
          week_n == WeekN(substance_records, current_week_start)
          units_used == UnitsUsed(substance_records, current_week_start)
          c == ClassifyDecayed(params, week_n, units_used)
      IN  [substance |-> substance_lower,
           week_n |-> week_n,
           quota_week_0 |-> params.quota_week_0,
           current_quota_is_zero |-> CurrentQuotaIsZero(params, week_n),
           units_used |-> units_used,
           status |-> c.status,
           coaching_flag |-> c.coaching_flag,
           penance_triggered |-> c.penance_triggered,
           reference_date |-> reference_date]

\* the lake of a substance first recorded on day 0, with a record dated today
DecayHistory(sub, amount, today) ==
    << [substance |-> sub, amount |-> "0", timestamp |-> Ts(0, 10, 0)],
       [substance |-> sub, amount |-> amount, timestamp |-> Ts(today, 10, 0)] >>

DecayAmounts == {"0", "1"}

\* get_quota_state(substance) today
GetDecayedQuotaState(sub, amount) ==
    /\ quota' = GetDecayedQuotaStateOp(sub, DecayHistory(sub, amount, utc_today),
                                       utc_today)
    /\ UNCHANGED <<intake, lastIntake, penanceVars, engineVars, lakeVars,
                   schedulerVars, registryVars, routerVars, milestoneVars>>

\* a week passes
WeekPasses ==
    /\ utc_today + 7 <= MaxDecayWeeks * 7
    /\ utc_today' = utc_today + 7
    /\ quota' = NoState
    /\ UNCHANGED <<celebrations, announced, intake, lastIntake, penanceVars,
                   engineVars, lakeVars, schedulerVars, registryVars, routerVars>>

DecayNext ==
    \/ \E sub \in DOMAIN SUBSTANCE_QUOTAS, amount \in DecayAmounts :
          GetDecayedQuotaState(sub, amount)
    \/ WeekPasses

DecaySpec == Init /\ [][DecayNext]_vars

----------------------------------------------------------------------------
(* Claim C29 *)

\* the week from which current_quota is 0.0
ZeroQuotaWeek ==
    [s \in DOMAIN SUBSTANCE_QUOTAS |->
        CASE s = "3-cmc" -> 4585
          [] s = "k" -> 4585
          [] s = "x" -> 3340
          [] s = "thc" -> 7073]

====
